---- MODULE Spec2Model ----
(***************************************************************************)
(* Event-to-execution orchestration engine of the Claude Docker Action:    *)
(* trigger detection (src/github/events.ts), branch coordination           *)
(* (src/github/operations.ts), capability configuration                    *)
(* (src/mcp/install-mcp-server.ts), the subprocess runner                  *)
(* (src/claude/runner.ts) and the orchestrator main().                     *)
(*                                                                         *)
(* JavaScript strings are sequences of one-character strings.  An optional *)
(* value (a field that may be undefined) is a sequence of length at most   *)
(* one: None is undefined, Some(x) is a present value.                     *)
(***************************************************************************)
EXTENDS Integers, Sequences, FiniteSets, TLC

VARIABLES
  config,          \* DockerActionConfig handed to the components
  context,         \* GitHubEventContext (with its payload)
  tpc,             \* position of a direct call of checkTriggerConditions
  triggerContext,  \* TriggerContext returned by checkTriggerConditions
  rpc,             \* position of runClaude
  pipeFile,        \* what is at PIPE_PATH: "none", "stale" or "fresh"
  pipeIo,          \* the two ends of the pipe and whether the prompt went through
  procs,           \* state of catProcess, claudeProcess and pipeProcess
  claudeStatus,    \* exit status of the assistant: None while alive or signalled
  signals,         \* signals delivered to the assistant, in order, with their sender
  helperSignals,   \* signals sent to catProcess / pipeProcess
  output,          \* number of stdout chunks accumulated in `output`
  resolved,        \* the `resolved` flag of the exit-code promise
  promise,         \* value the exit-code promise resolved with
  timer,           \* the timeout timer: "unset", "armed", "fired", "cleared"
  killTimer,       \* the 5 s force-kill timer: "unset", "armed", "fired"
  aliveAtTimeout,  \* history: the assistant was running when the timeout fired
  executionFile,   \* executionFile of runClaude
  persisted,       \* the attempt to write the execution file: "unset", "skipped", "saved", "failed"
  result,          \* ClaudeResult returned by runClaude
  bpc,             \* position of a direct call of setupBranch
  remoteRefs,      \* branch refs that exist in the remote repository
  ops,             \* hosting-API requests and git commands issued, in order
  checkedOut,      \* the ref checked out in the working tree
  branchInfo,      \* BranchInfo returned by setupBranch
  now,             \* the Date setupBranch read for the timestamp, None if not read
  earlier,         \* earlier invocations of setupBranch on the same repository
  pc,              \* position of main()
  event,           \* GITHUB_EVENT_NAME, GITHUB_EVENT_ACTION and the event document
  validateOnly,    \* process.argv includes --validate-config
  outputs,         \* action outputs set with core.setOutput
  exitCode,        \* exit status of the process, None while it runs
  setFailed,       \* core.setFailed was called
  failedAt,        \* step whose error ended the invocation, None if none
  commentData,     \* id of the tracking comment created
  gitAuth,         \* git credentials and user were configured
  promptPath,      \* path of the prompt file written
  mcpConfig,       \* capability configuration returned by prepareMcpConfig
  mpc,             \* position of a direct call of prepareMcpConfig
  mcpParams,       \* PrepareConfigParams of that call
  mcpEnv,          \* ACTIONS_TOKEN is set; the credential has the actions:read scope
  mcpResult,       \* what the call returned, or that it ended the process
  epc,             \* position of a direct call of parseEnvironmentConfig
  env,             \* process.env
  envConfig,       \* the DockerActionConfig returned, or the error thrown
  ipc,             \* position of runClaude in each of two invocations on one host
  files,           \* for each fixed path, the invocation that created what is there
  opened,          \* for each invocation, whose pipe its helper processes opened
  jqRead,          \* for each invocation, whose /tmp/output.txt its jq read
  apc,             \* position of a direct call of setupGitHubToken
  auth             \* that call: the retry loop it is in, its attempts, waits and outcome

\* ------------------------------------------------------------------ bounds
MaxLen == 3        \* longest comment body drawn
MaxFieldLen == 2   \* longest issue/PR/review body or title drawn
MaxChunks == 2     \* most stdout chunks the assistant writes
MaxSecond == 1     \* latest second of the minute the clock is read at
MaxRuns == 2       \* most invocations of setupBranch against one repository

\* ----------------------------------------------------------- basic values
None == <<>>
Some(x) == <<x>>
IsSome(o) == o # <<>>
Get(o) == o[1]
Opt(S) == {None} \cup {Some(x) : x \in S}

Chars == {"@", "c", "C"}

RECURSIVE StringsUpTo(_)
StringsUpTo(n) ==
  IF n = 0 THEN {<<>>}
  ELSE LET shorter == StringsUpTo(n - 1)
       IN  shorter \cup {Append(s, ch) : s \in {t \in shorter : Len(t) = n - 1}, ch \in Chars}

\* String.prototype.includes: literal, case-sensitive substring search
Includes(s, sub) ==
  \E i \in 0..(Len(s) - Len(sub)) :
     \A j \in 1..Len(sub) : s[i + j] = sub[j]

\* JavaScript truthiness of an optional string: undefined and "" are falsy
Truthy(o) == IsSome(o) /\ Len(Get(o)) > 0

DigitChar(d) == <<"0", "1", "2", "3", "4", "5", "6", "7", "8", "9">>[d + 1]

\* Number.prototype.toString for a non-negative integer
RECURSIVE NumToString(_)
NumToString(n) ==
  IF n < 10 THEN <<DigitChar(n)>>
  ELSE Append(NumToString(n \div 10), DigitChar(n % 10))

\* ------------------------------------------------------- trigger evaluator
TriggerPhrase == <<"@", "c">>
Users == {"al", "bot"}
Labels == {"claude", "bug"}
CommentIds == {456}
EntityNumbers == {7, 42}
EventNames == {"issue_comment", "pull_request_review_comment",
               "pull_request_review", "issues", "pull_request"}
EventActions == {"opened", "assigned", "labeled"}

\* result of a call that raised (a TypeError on an absent payload field)
Threw == [threw |-> TRUE, containsTrigger |-> FALSE, triggerComment |-> None,
          triggerUsername |-> None, commentId |-> None]

TriggerResult(ct, tc, tu, cid) ==
  [threw |-> FALSE, containsTrigger |-> ct, triggerComment |-> tc,
   triggerUsername |-> tu, commentId |-> cid]

\* case 'issue_comment' and case 'pull_request_review_comment'
CommentCaseMutant(payload, cfg) ==
  IF ~IsSome(payload.comment) THEN Threw
  ELSE LET comment == Get(payload.comment) IN
       IF ~IsSome(comment.body) THEN Threw
       ELSE IF Get(comment.body) = cfg.triggerPhrase
            THEN IF ~IsSome(comment.user) \/ ~IsSome(comment.id) THEN Threw
                 ELSE TriggerResult(TRUE, comment.body, comment.user,
                                    Some(NumToString(Get(comment.id))))
            ELSE TriggerResult(FALSE, None, None, None)

CommentCase(payload, cfg) ==
  IF ~IsSome(payload.comment) THEN Threw
  ELSE LET comment == Get(payload.comment) IN
       IF ~IsSome(comment.body) THEN Threw
       ELSE IF Includes(Get(comment.body), cfg.triggerPhrase)
            THEN IF ~IsSome(comment.user) \/ ~IsSome(comment.id) THEN Threw
                 ELSE TriggerResult(TRUE, comment.body, comment.user,
                                    Some(NumToString(Get(comment.id))))
            ELSE TriggerResult(FALSE, None, None, None)

\* case 'pull_request_review'
ReviewCase(payload, cfg) ==
  IF ~IsSome(payload.review) THEN Threw
  ELSE LET review == Get(payload.review) IN
       IF Truthy(review.body) /\ Includes(Get(review.body), cfg.triggerPhrase)
       THEN IF ~IsSome(review.user) THEN Threw
            ELSE TriggerResult(TRUE, review.body, review.user, None)
       ELSE TriggerResult(FALSE, None, None, None)

IssueTextMutant(issue, phrase) ==
  IF Truthy(issue.title) /\ Includes(Get(issue.title), phrase) THEN issue.title
  ELSE IF Truthy(issue.body) /\ Includes(Get(issue.body), phrase) THEN issue.body
  ELSE None

\* if (issue.body && issue.body.includes(triggerPhrase)) ... else if
\* (issue.title && issue.title.includes(triggerPhrase)) ...: the text retained
IssueText(issue, phrase) ==
  IF Truthy(issue.body) /\ Includes(Get(issue.body), phrase) THEN issue.body
  ELSE IF Truthy(issue.title) /\ Includes(Get(issue.title), phrase) THEN issue.title
  ELSE None

IssuesCaseMutant(ctx, cfg) ==
  LET payload == ctx.payload
      byAssignee == /\ IsSome(cfg.assigneeTrigger)
                    /\ ctx.eventAction = Some("assigned")
                    /\ IsSome(payload.assignee)
                    /\ Some(Get(payload.assignee)) = cfg.assigneeTrigger
  IN  TriggerResult(byAssignee, None, payload.assignee, None)

ByLabelMutant(ctx, cfg) ==
  /\ IsSome(cfg.labelTrigger)
  /\ IsSome(ctx.payload.label)
  /\ Some(Get(ctx.payload.label)) = cfg.labelTrigger

\* if (labelTrigger && context.eventAction === 'labeled') { if (label &&
\* label.name === labelTrigger) ... }
ByLabel(ctx, cfg) ==
  /\ IsSome(cfg.labelTrigger)
  /\ ctx.eventAction = Some("labeled")
  /\ IsSome(ctx.payload.label)
  /\ Some(Get(ctx.payload.label)) = cfg.labelTrigger

\* case 'issues': assignee rule, label rule, then body else title
IssuesCase(ctx, cfg) ==
  LET payload == ctx.payload
      byAssignee == /\ IsSome(cfg.assigneeTrigger)
                    /\ ctx.eventAction = Some("assigned")
                    /\ IsSome(payload.assignee)
                    /\ Some(Get(payload.assignee)) = cfg.assigneeTrigger
      byLabel == ByLabel(ctx, cfg)
      user1 == IF byAssignee THEN payload.assignee ELSE None
  IN
  IF ~IsSome(payload.issue) THEN Threw
  ELSE LET issue == Get(payload.issue)
           text == IssueText(issue, cfg.triggerPhrase)
       IN  IF IsSome(text)
           THEN IF ~IsSome(issue.user) THEN Threw
                ELSE TriggerResult(TRUE, text, issue.user, None)
           ELSE TriggerResult(byAssignee \/ byLabel, None, user1, None)

\* case 'pull_request'
PullRequestCase(payload, cfg) ==
  IF ~IsSome(payload.pull_request) THEN Threw
  ELSE LET pr == Get(payload.pull_request) IN
       IF Truthy(pr.body) /\ Includes(Get(pr.body), cfg.triggerPhrase)
       THEN IF ~IsSome(pr.user) THEN Threw
            ELSE TriggerResult(TRUE, pr.body, pr.user, None)
       ELSE TriggerResult(FALSE, None, None, None)

DirectPromptMutant(cfg) == FALSE

\* if (directPrompt)
DirectPrompt(cfg) == Truthy(cfg.directPrompt)

checkTriggerConditions(ctx, cfg) ==
  IF DirectPrompt(cfg)
  THEN TriggerResult(TRUE, cfg.directPrompt, None, None)
  ELSE CASE ctx.eventName = "issue_comment" -> CommentCase(ctx.payload, cfg)
         [] ctx.eventName = "pull_request_review_comment" -> CommentCase(ctx.payload, cfg)
         [] ctx.eventName = "pull_request_review" -> ReviewCase(ctx.payload, cfg)
         [] ctx.eventName = "issues" -> IssuesCase(ctx, cfg)
         [] ctx.eventName = "pull_request" -> PullRequestCase(ctx.payload, cfg)
         [] OTHER -> TriggerResult(FALSE, None, None, None)

\* ------------------------------------------------------- event normalizer
ParseThrew == [threw |-> TRUE]

Context(name, action, number, isPR, actor, payload) ==
  [threw |-> FALSE, eventName |-> name, eventAction |-> action,
   entityNumber |-> number, isPR |-> isPR, actor |-> actor, payload |-> payload]

\* payload.comment.user.login
CommentActor(payload) ==
  IF IsSome(payload.comment) /\ IsSome(Get(payload.comment).user)
  THEN Get(payload.comment).user ELSE None

\* payload.issue.pull_request as the payload document carries it: the key is
\* absent (undefined), null, or a linkage object
Linkages == {"absent", "null", "object"}

\* the truthiness of payload.issue.pull_request
IsPullRequestIssueMutant(issue) == issue.pull_request # "absent"

IsPullRequestIssue(issue) == issue.pull_request = "object"

parseGitHubContext(eventName, eventAction, payload) ==
  CASE eventName = "issue_comment" ->
         IF ~IsSome(payload.issue) \/ ~IsSome(CommentActor(payload)) THEN ParseThrew
         ELSE Context(eventName, eventAction, Get(payload.issue).number,
                      IsPullRequestIssue(Get(payload.issue)),
                      Get(CommentActor(payload)), payload)
    [] eventName = "pull_request_review_comment" ->
         IF ~IsSome(payload.pull_request) \/ ~IsSome(CommentActor(payload)) THEN ParseThrew
         ELSE Context(eventName, eventAction, Get(payload.pull_request).number, TRUE,
                      Get(CommentActor(payload)), payload)
    [] eventName = "pull_request_review" ->
         IF \/ ~IsSome(payload.pull_request)
            \/ ~IsSome(payload.review)
            \/ ~IsSome(Get(payload.review).user) THEN ParseThrew
         ELSE Context(eventName, eventAction, Get(payload.pull_request).number, TRUE,
                      Get(Get(payload.review).user), payload)
    [] eventName = "issues" ->
         IF ~IsSome(payload.issue) \/ ~IsSome(Get(payload.issue).user) THEN ParseThrew
         ELSE Context(eventName, eventAction, Get(payload.issue).number, FALSE,
                      Get(Get(payload.issue).user), payload)
    [] eventName = "pull_request" ->
         IF ~IsSome(payload.pull_request) \/ ~IsSome(Get(payload.pull_request).user)
         THEN ParseThrew
         ELSE Context(eventName, eventAction, Get(payload.pull_request).number, TRUE,
                      Get(Get(payload.pull_request).user), payload)
    [] OTHER -> ParseThrew

\* ------------------------------------------------------------ input space
EmptyPayload ==
  [comment |-> None, issue |-> None, pull_request |-> None,
   review |-> None, assignee |-> None, label |-> None]

CommentObjects(bodies) ==
  [body : Opt(bodies), user : Opt({"al"}), id : Opt(CommentIds)]

IssueObjects(numbers, texts, linkages) ==
  [number : numbers, body : Opt(texts), title : Opt(texts),
   user : {Some("al")}, pull_request : linkages]

MainRef == <<"m", "a", "i", "n">>
DevRef == <<"d", "e", "v">>
FeatureRef == <<"f", "e", "a", "t">>
PrStates == {"open", "closed", "merged"}

PullRequestObjects(numbers, texts, states) ==
  [number : numbers, body : Opt(texts), user : {Some("al")}, state : states,
   head : {FeatureRef}, base : {DevRef}, commits : {None, Some(3), Some(25)}]

ReviewObjects(texts) == [body : Opt(texts), user : {Some("al")}]

PlainIssue(n, linked) ==
  [number |-> n, body |-> None, title |-> Some(<<"C">>),
   user |-> Some("al"), pull_request |-> linked]

PlainPullRequest(n, st) ==
  [number |-> n, body |-> None, user |-> Some("al"), state |-> st,
   head |-> FeatureRef, base |-> DevRef, commits |-> Some(3)]

\* the payload documents GitHub delivers for each event kind
PayloadsOf(name, bodies, texts) ==
  CASE name = "issue_comment" ->
         {[EmptyPayload EXCEPT !.comment = Some(c),
                               !.issue = Some(PlainIssue(42, linked))] :
            c \in CommentObjects(bodies), linked \in Linkages}
    [] name = "pull_request_review_comment" ->
         {[EmptyPayload EXCEPT !.comment = Some(c),
                               !.pull_request = Some(PlainPullRequest(7, "open"))] :
            c \in CommentObjects(bodies)}
    [] name = "pull_request_review" ->
         {[EmptyPayload EXCEPT !.review = Some(r),
                               !.pull_request = Some(PlainPullRequest(7, "open"))] :
            r \in ReviewObjects(texts)}
    [] name = "issues" ->
         {[EmptyPayload EXCEPT !.issue = Some(i), !.assignee = a, !.label = l] :
            i \in IssueObjects({42}, texts, {"absent"}),
            a \in Opt(Users), l \in Opt(Labels)}
    [] name = "pull_request" ->
         {[EmptyPayload EXCEPT !.pull_request = Some(p)] :
            p \in PullRequestObjects({7}, texts, {"open"})}

ActionsOf(name) ==
  IF name = "issues" THEN {Some(a) : a \in EventActions} ELSE {None}

\* no additional MCP configuration document supplied
NoDocument == [kind |-> "absent"]

DefaultConfig ==
  [triggerPhrase |-> TriggerPhrase, assigneeTrigger |-> None,
   labelTrigger |-> Some("claude"), directPrompt |-> None,
   baseBranch |-> None, branchPrefix |-> <<"c", "l", "a", "u", "d", "e", "/">>,
   useCommitSigning |-> FALSE, timeoutMinutes |-> 30,
   allowedTools |-> None, mcpConfig |-> NoDocument]

TriggerConfigs ==
  {[DefaultConfig EXCEPT !.assigneeTrigger = a, !.directPrompt = d] :
     a \in Opt({"bot"}), d \in Opt({<<"C">>})}

\* ---------------------------------------------------------- variable groups
inputVars == <<config, context>>
triggerVars == <<tpc, triggerContext>>
runVars == <<rpc, pipeFile, pipeIo, procs, claudeStatus, signals, helperSignals, output,
             resolved, promise, timer, killTimer, aliveAtTimeout, executionFile,
             persisted, result>>
branchVars == <<bpc, remoteRefs, ops, checkedOut, branchInfo, now, earlier>>
mainVars == <<pc, event, validateOnly, outputs, exitCode, setFailed, failedAt,
              commentData, gitAuth, promptPath, mcpConfig>>
mcpVars == <<mpc, mcpParams, mcpEnv, mcpResult>>
envVars == <<epc, env, envConfig>>
shareVars == <<ipc, files, opened, jqRead>>
authVars == <<apc, auth>>
callVars == <<mcpVars, envVars, shareVars, authVars>>
vars == <<inputVars, triggerVars, runVars, branchVars, mainVars, callVars>>

NoResult == [threw |-> FALSE, containsTrigger |-> FALSE, triggerComment |-> None,
             triggerUsername |-> None, commentId |-> None]

TriggerIdle == tpc = "idle" /\ triggerContext = NoResult

NoBranch == [threw |-> FALSE, baseBranch |-> None, claudeBranch |-> None,
             currentBranch |-> None]

NoEvent == [eventName |-> "none", eventAction |-> None, payload |-> EmptyPayload]

NoOutputs == [conclusion |-> None, execution_file |-> None]

MainIdle ==
  /\ pc = "idle"
  /\ event = NoEvent
  /\ validateOnly = FALSE
  /\ outputs = NoOutputs
  /\ exitCode = None
  /\ setFailed = FALSE
  /\ failedAt = None
  /\ commentData = None
  /\ gitAuth = FALSE
  /\ promptPath = None
  /\ mcpConfig = None

NoParams == [context |-> [isPR |-> FALSE]]

NoMcpResult == [exited |-> FALSE, config |-> None, warnings |-> {}, probes |-> 0]

McpIdle ==
  /\ mpc = "idle"
  /\ mcpParams = NoParams
  /\ mcpEnv = [actionsToken |-> FALSE, actionsScope |-> FALSE]
  /\ mcpResult = NoMcpResult

NoEnv == <<>>

EnvIdle ==
  /\ epc = "idle"
  /\ env = NoEnv
  /\ envConfig = None

Invocations == {"A", "B"}
PIPE_PATH == "/tmp/claude_prompt_pipe"
OutputTxt == "/tmp/output.txt"
EXECUTION_FILE == "/tmp/claude-execution-output.json"
FixedPaths == {PIPE_PATH, OutputTxt, EXECUTION_FILE}

ShareIdle ==
  /\ ipc = [i \in Invocations |-> "idle"]
  /\ files = [f \in FixedPaths |-> None]
  /\ opened = [i \in Invocations |-> None]
  /\ jqRead = [i \in Invocations |-> None]

\* setupGitHubToken has not started: no loop entered, nothing attempted
NoAuth == [provided |-> FALSE, phase |-> "none", attempt |-> 0,
           calls |-> [oidc |-> 0, exchange |-> 0], waits |-> <<>>,
           warned |-> <<>>, lastError |-> None, result |-> None,
           thrown |-> None]

AuthIdle == apc = "idle" /\ auth = NoAuth

CallIdle == McpIdle /\ EnvIdle /\ ShareIdle /\ AuthIdle

BranchIdle ==
  /\ bpc = "idle"
  /\ remoteRefs = {}
  /\ ops = <<>>
  /\ checkedOut = None
  /\ branchInfo = NoBranch
  /\ now = None
  /\ earlier = <<>>

\* no write stream created, no reader attached, nothing delivered
NoPipeIo == [writer |-> "none", reader |-> "none", delivered |-> FALSE]

RunIdle ==
  /\ rpc = "idle"
  /\ pipeFile = "none"
  /\ pipeIo = NoPipeIo
  /\ procs = [cat |-> "none", claude |-> "none", pipe |-> "none"]
  /\ claudeStatus = None
  /\ signals = <<>>
  /\ helperSignals = {}
  /\ output = 0
  /\ resolved = FALSE
  /\ promise = None
  /\ timer = "unset"
  /\ killTimer = "unset"
  /\ aliveAtTimeout = FALSE
  /\ executionFile = None
  /\ persisted = "unset"
  /\ result = None

\* ------------------------------------- direct calls of the trigger evaluator
\* a text that holds the trigger phrase and more
LongMention == TriggerPhrase \o <<"C">>

TriggerInit ==
  /\ \E name \in EventNames :
       \E payload \in PayloadsOf(name, StringsUpTo(MaxLen),
                                 StringsUpTo(MaxFieldLen) \cup {LongMention}) :
         \E action \in ActionsOf(name) :
           LET parsed == parseGitHubContext(name, action, payload) IN
           /\ ~parsed.threw
           /\ context = parsed
  /\ config \in TriggerConfigs
  /\ tpc = "call"
  /\ triggerContext = NoResult
  /\ RunIdle
  /\ BranchIdle
  /\ MainIdle
  /\ CallIdle

CheckTrigger ==
  /\ tpc = "call"
  /\ triggerContext' = checkTriggerConditions(context, config)
  /\ tpc' = "returned"
  /\ UNCHANGED <<inputVars, callVars, runVars, branchVars, mainVars>>

TriggerNext == CheckTrigger

SpecTrigger == TriggerInit /\ [][TriggerNext]_vars

IsCommentEvent ==
  context.eventName \in {"issue_comment", "pull_request_review_comment"}

CommentBody == Get(context.payload.comment).body

\* C6: on a comment-bearing event with no direct instruction, a comment whose
\* body contains the trigger phrase anywhere is matched, with triggerComment
\* the whole body, triggerUsername the author and commentId the comment's id.
C6_CommentTriggerMatches ==
  ( /\ tpc = "returned"
    /\ IsCommentEvent
    /\ ~Truthy(config.directPrompt)
    /\ IsSome(CommentBody)
    /\ Includes(Get(CommentBody), config.triggerPhrase)
    /\ IsSome(Get(context.payload.comment).id) )
  => /\ ~triggerContext.threw
     /\ triggerContext.containsTrigger
     /\ triggerContext.triggerComment = CommentBody
     /\ triggerContext.triggerUsername = Get(context.payload.comment).user
     /\ triggerContext.commentId =
          Some(NumToString(Get(Get(context.payload.comment).id)))

\* a matched comment in which the phrase is embedded in longer text
C6_Witness ==
  /\ tpc = "returned"
  /\ context.eventName = "pull_request_review_comment"
  /\ ~Truthy(config.directPrompt)
  /\ CommentBody = Some(<<"C", "@", "c">>)
  /\ triggerContext.containsTrigger
  /\ triggerContext.commentId = Some(<<"4", "5", "6">>)

\* C7: with no direct instruction, an unmatched decision carries no
\* triggerComment, triggerUsername or commentId, and a comment body without
\* the trigger phrase is unmatched.
C7_UnmatchedHasNoFields ==
  ( tpc = "returned" /\ ~Truthy(config.directPrompt) /\ ~triggerContext.threw )
  => /\ ( ~triggerContext.containsTrigger
          => /\ triggerContext.triggerComment = None
             /\ triggerContext.triggerUsername = None
             /\ triggerContext.commentId = None )
     /\ ( ( /\ IsCommentEvent
            /\ IsSome(CommentBody)
            /\ ~Includes(Get(CommentBody), config.triggerPhrase) )
          => ~triggerContext.containsTrigger )

\* an unmatched comment whose body differs from the phrase only in case
C7_Witness ==
  /\ tpc = "returned"
  /\ context.eventName = "issue_comment"
  /\ ~Truthy(config.directPrompt)
  /\ CommentBody = Some(<<"@", "C">>)
  /\ ~triggerContext.containsTrigger

\* C8: a non-empty direct instruction always matches, with triggerComment
\* the instruction, whatever the event kind and payload contain.
C8_DirectInstructionWins ==
  ( tpc = "returned" /\ Truthy(config.directPrompt) )
  => /\ ~triggerContext.threw
     /\ triggerContext.containsTrigger
     /\ triggerContext.triggerComment = config.directPrompt
     /\ triggerContext.triggerUsername = None
     /\ triggerContext.commentId = None

\* a direct instruction matching on a comment that lacks the phrase
C8_Witness ==
  /\ tpc = "returned"
  /\ Truthy(config.directPrompt)
  /\ context.eventName = "issue_comment"
  /\ CommentBody = Some(<<"C">>)
  /\ triggerContext.containsTrigger
  /\ triggerContext.triggerComment = config.directPrompt

IssueObject == Get(context.payload.issue)

BothMention ==
  /\ tpc = "returned"
  /\ context.eventName = "issues"
  /\ ~Truthy(config.directPrompt)
  /\ Truthy(IssueObject.body) /\ Includes(Get(IssueObject.body), config.triggerPhrase)
  /\ Truthy(IssueObject.title) /\ Includes(Get(IssueObject.title), config.triggerPhrase)

\* C17 as stated: on an issues event whose body and title both contain the
\* trigger phrase the decision is matched and triggerComment is the title.
C17_TitleOverridesBody ==
  BothMention
  => /\ triggerContext.containsTrigger
     /\ triggerContext.triggerComment = IssueObject.title

\* C17, amended: on an issues event whose body and title both contain the
\* trigger phrase the decision is matched and triggerComment is the body;
\* the title is retained only when the body does not contain the phrase.
C17_BodyTakesPrecedence ==
  /\ BothMention
     => /\ triggerContext.containsTrigger
        /\ triggerContext.triggerComment = IssueObject.body
  /\ ( /\ tpc = "returned"
       /\ context.eventName = "issues"
       /\ ~Truthy(config.directPrompt)
       /\ triggerContext.containsTrigger
       /\ triggerContext.triggerComment = IssueObject.title
       /\ IssueObject.title # IssueObject.body )
     => ~(Truthy(IssueObject.body) /\ Includes(Get(IssueObject.body), config.triggerPhrase))

\* body '@cC' and title '@c' both mention: the body is retained
C17_Witness ==
  /\ BothMention
  /\ IssueObject.body = Some(LongMention)
  /\ IssueObject.title = Some(TriggerPhrase)
  /\ triggerContext.triggerComment = Some(LongMention)

\* C18: checkTriggerConditions never raises: on every supported event with an
\* expected payload field absent it returns a decision.
C18_NeverRaises ==
  tpc = "returned" => ~triggerContext.threw

FieldHasPhrase(field) ==
  IsSome(field) /\ Includes(Get(field), config.triggerPhrase)

PhraseInIssue ==
  FieldHasPhrase(IssueObject.body) \/ FieldHasPhrase(IssueObject.title)

AssigneeRule ==
  /\ context.eventAction = Some("assigned")
  /\ IsSome(context.payload.assignee)
  /\ context.payload.assignee = config.assigneeTrigger

LabelRule ==
  /\ context.eventAction = Some("labeled")
  /\ IsSome(context.payload.label)
  /\ context.payload.label = config.labelTrigger

ExitCodes == {0, 1}
TimeoutExitCode == 124

\* resolve(code || 0) in the 'close' handler
CloseCode(code) == IF code = None \/ Get(code) = 0 THEN 0 ELSE Get(code)

SuccessOfMutant(code) == code # 1

\* const success = exitCode === 0
SuccessOf(code) == code = 0

UndecidedMutant == TRUE

\* if (!resolved): the guard of the timeout, 'close' and 'error' callbacks
Undecided == ~resolved

KillMutant(p, sent, sig, by) == Append(sent, [sig |-> sig, by |-> by])

\* claudeProcess.kill(sig): the signal is delivered while the child runs; on
\* a child that has exited or was never spawned kill() returns false
Kill(p, sent, sig, by) ==
  IF p.claude = "running" THEN Append(sent, [sig |-> sig, by |-> by]) ELSE sent

\* a signal ends a helper process that is running
Terminated(st) == IF st = "running" THEN "killed" ELSE st

\* "Clean up processes": the continuation of the awaited promise, run in the
\* same turn as the handler that resolved it
CleanUpProcesses(p) ==
  /\ procs' = [p EXCEPT !.cat = Terminated(p.cat), !.pipe = Terminated(p.pipe)]
  /\ helperSignals' = {"cat", "pipe"}
  /\ rpc' = "cleanup"

RunInit ==
  /\ config = DefaultConfig
  /\ context = parseGitHubContext("issue_comment", None,
                 [EmptyPayload EXCEPT
                    !.comment = Some([body |-> Some(TriggerPhrase),
                                      user |-> Some("al"), id |-> Some(456)]),
                    !.issue = Some(PlainIssue(42, "absent"))])
  /\ TriggerIdle
  /\ BranchIdle
  /\ MainIdle
  /\ CallIdle
  /\ rpc = "entry"
  /\ pipeFile \in {"none", "stale"}
  /\ pipeIo = NoPipeIo
  /\ procs = [cat |-> "none", claude |-> "none", pipe |-> "none"]
  /\ claudeStatus = None
  /\ signals = <<>>
  /\ helperSignals = {}
  /\ output = 0
  /\ resolved = FALSE
  /\ promise = None
  /\ timer = "unset"
  /\ killTimer = "unset"
  /\ aliveAtTimeout = FALSE
  /\ executionFile = None
  /\ persisted = "unset"
  /\ result = None

\* await unlink(PIPE_PATH), errors ignored
UnlinkStalePipe ==
  /\ rpc = "entry"
  /\ pipeFile' \in {"none", pipeFile}
  /\ rpc' = "mkfifo"
  /\ UNCHANGED <<persisted, pipeIo, inputVars, callVars, triggerVars, branchVars, mainVars, procs, claudeStatus, signals, helperSignals,
                 output, resolved, promise, timer, killTimer, aliveAtTimeout,
                 executionFile, result>>

mkfifoMutant(file) ==
  {[file |-> IF file = "none" THEN "fresh" ELSE file, threw |-> FALSE],
   [file |-> file, threw |-> TRUE]}

\* mkfifo "${PIPE_PATH}": creates the pipe where nothing is, fails where a file
\* is (EEXIST) and may fail for other reasons; a failure makes $`...` throw
mkfifo(file) ==
  IF file = "none"
  THEN {[file |-> "fresh", threw |-> FALSE], [file |-> "none", threw |-> TRUE]}
  ELSE {[file |-> file, threw |-> TRUE]}

\* await $`mkfifo`: creates the pipe, or throws into the outer catch
Mkfifo ==
  /\ rpc = "mkfifo"
  /\ \E r \in mkfifo(pipeFile) :
       /\ pipeFile' = r.file
       /\ rpc' = IF r.threw THEN "threw" ELSE "spawn"
  /\ UNCHANGED <<persisted, pipeIo, inputVars, callVars, triggerVars, branchVars, mainVars, procs, claudeStatus, signals, helperSignals,
                 output, resolved, promise, timer, killTimer, aliveAtTimeout,
                 executionFile, result>>

\* spawn cat, claude and the pipe reader, then arm the timeout: one turn
SpawnProcesses ==
  /\ rpc = "spawn"
  /\ \E c \in {"running", "spawnFailed"}, a \in {"running", "spawnFailed"},
        r \in {"running", "spawnFailed"} :
       procs' = [cat |-> c, claude |-> a, pipe |-> r]
  /\ pipeIo' = [pipeIo EXCEPT !.writer = "opening"]
  /\ timer' = "armed"
  /\ rpc' = "waiting"
  /\ UNCHANGED <<persisted, inputVars, callVars, triggerVars, branchVars, mainVars, pipeFile, claudeStatus, signals, helperSignals,
                 output, resolved, promise, killTimer, aliveAtTimeout,
                 executionFile, result>>

\* one of the three spawn calls throws synchronously (an error other than
\* ENOENT, EACCES, EAGAIN, EMFILE, ENFILE, e.g. E2BIG): control goes to the
\* outer catch, which logs and rethrows; what was spawned before stays
SpawnThrows ==
  /\ rpc = "spawn"
  /\ \E at \in {"cat", "claude", "pipe"}, c \in {"running", "spawnFailed"},
        a \in {"running", "spawnFailed"} :
       /\ procs' = [cat |-> IF at = "cat" THEN "none" ELSE c,
                    claude |-> IF at = "pipe" THEN a ELSE "none",
                    pipe |-> "none"]
       /\ pipeIo' = [pipeIo EXCEPT !.writer = IF at = "cat" THEN "none" ELSE "opening"]
  /\ rpc' = "threw"
  /\ UNCHANGED <<persisted, inputVars, callVars, triggerVars, branchVars, mainVars, pipeFile, claudeStatus, signals,
                 helperSignals, output, resolved, promise, timer, killTimer,
                 aliveAtTimeout, executionFile, result>>

\* claudeProcess.stdout 'data': output += text
ClaudeData ==
  /\ rpc \in {"waiting", "cleanup", "artifact"}
  /\ procs.claude = "running"
  /\ output < MaxChunks
  /\ output' = output + 1
  /\ UNCHANGED <<persisted, pipeIo, inputVars, callVars, triggerVars, branchVars, mainVars, rpc, pipeFile, procs, claudeStatus, signals,
                 helperSignals, resolved, promise, timer, killTimer, aliveAtTimeout,
                 executionFile, result>>

\* the assistant ends: with a status of its own, or by a signal it was sent
ClaudeExits ==
  /\ procs.claude = "running"
  /\ \E st \in Opt(ExitCodes) :
       /\ st = None => signals # <<>>
       /\ claudeStatus' = st
  /\ procs' = [procs EXCEPT !.claude = "exited"]
  /\ UNCHANGED <<persisted, pipeIo, inputVars, callVars, triggerVars, branchVars, mainVars, rpc, pipeFile, signals, helperSignals, output,
                 resolved, promise, timer, killTimer, aliveAtTimeout,
                 executionFile, result>>

\* claudeProcess.on('close')
ClaudeClose ==
  /\ procs.claude = "exited"
  /\ rpc \in {"waiting", "cleanup", "artifact", "return", "returned"}
  /\ IF Undecided
     THEN /\ timer' = "cleared"
          /\ resolved' = TRUE
          /\ promise' = Some(CloseCode(claudeStatus))
          /\ CleanUpProcesses([procs EXCEPT !.claude = "closed"])
     ELSE /\ procs' = [procs EXCEPT !.claude = "closed"]
          /\ UNCHANGED <<timer, resolved, promise, helperSignals, rpc>>
  /\ UNCHANGED <<persisted, pipeIo, inputVars, callVars, triggerVars, branchVars, mainVars, pipeFile, claudeStatus, signals, output,
                 killTimer, aliveAtTimeout, executionFile, result>>

\* claudeProcess.on('error'): the assistant could not be spawned
ClaudeError ==
  /\ procs.claude = "spawnFailed"
  /\ rpc = "waiting"
  /\ IF Undecided
     THEN /\ timer' = "cleared"
          /\ resolved' = TRUE
          /\ promise' = Some(1)
          /\ CleanUpProcesses([procs EXCEPT !.claude = "errored"])
     ELSE /\ procs' = [procs EXCEPT !.claude = "errored"]
          /\ UNCHANGED <<timer, resolved, promise, helperSignals, rpc>>
  /\ pipeIo' = [pipeIo EXCEPT !.writer = "destroyed"]
  /\ UNCHANGED <<persisted, inputVars, callVars, triggerVars, branchVars, mainVars, pipeFile, claudeStatus, signals, output,
                 killTimer, aliveAtTimeout, executionFile, result>>

\* the setTimeout(timeoutMs) callback
TimeoutFires ==
  /\ timer = "armed"
  /\ rpc = "waiting"
  /\ procs.claude \in {"running", "exited"}
  /\ timer' = "fired"
  /\ IF Undecided
     THEN /\ signals' = Kill(procs, signals, "SIGTERM", "timeout")
          /\ killTimer' = "armed"
          /\ resolved' = TRUE
          /\ promise' = Some(TimeoutExitCode)
          /\ aliveAtTimeout' = (procs.claude = "running")
          /\ CleanUpProcesses(procs)
     ELSE UNCHANGED <<signals, killTimer, resolved, promise, aliveAtTimeout,
                      procs, helperSignals, rpc>>
  /\ UNCHANGED <<persisted, pipeIo, inputVars, callVars, triggerVars, branchVars, mainVars, pipeFile, claudeStatus, output,
                 executionFile, result>>

\* the inner setTimeout(5000) callback: claudeProcess.kill('SIGKILL')
KillTimerFires ==
  /\ killTimer = "armed"
  /\ killTimer' = "fired"
  /\ signals' = Kill(procs, signals, "SIGKILL", "killTimer")
  /\ IF procs.claude = "running"
     THEN procs' = [procs EXCEPT !.claude = "exited"]
     ELSE procs' = procs
  /\ UNCHANGED <<persisted, pipeIo, inputVars, callVars, triggerVars, branchVars, mainVars, rpc, pipeFile, claudeStatus, helperSignals,
                 output, resolved, promise, timer, aliveAtTimeout,
                 executionFile, result>>

\* pipeProcess.on('error'): claudeProcess.kill('SIGTERM')
PipeProcessError ==
  /\ procs.pipe = "spawnFailed"
  /\ rpc = "waiting"
  /\ procs' = [procs EXCEPT !.pipe = "errored"]
  /\ signals' = Kill(procs, signals, "SIGTERM", "pipeError")
  /\ UNCHANGED <<persisted, pipeIo, inputVars, callVars, triggerVars, branchVars, mainVars, rpc, pipeFile, claudeStatus, helperSignals,
                 output, resolved, promise, timer, killTimer, aliveAtTimeout,
                 executionFile, result>>

\* catProcess.on('error'): pipeStream.destroy()
CatProcessError ==
  /\ procs.cat = "spawnFailed"
  /\ rpc = "waiting"
  /\ procs' = [procs EXCEPT !.cat = "errored"]
  /\ pipeIo' = [pipeIo EXCEPT !.writer = "destroyed"]
  /\ UNCHANGED <<persisted, inputVars, callVars, triggerVars, branchVars, mainVars, rpc, pipeFile, claudeStatus, signals,
                 helperSignals, output, resolved, promise, timer, killTimer,
                 aliveAtTimeout, executionFile, result>>

\* cat PIPE_PATH in the pipe reader opens the pipe for reading; the pending
\* open of the write stream completes with it (a FIFO opens both ends together)
ReaderAttaches ==
  /\ procs.pipe = "running"
  /\ pipeIo.reader = "none"
  /\ pipeIo' = IF pipeFile = "fresh"
               THEN [pipeIo EXCEPT !.reader = "attached",
                                   !.writer = IF @ = "opening" THEN "open" ELSE @]
               ELSE [pipeIo EXCEPT !.reader = "failed"]
  /\ UNCHANGED <<persisted, inputVars, callVars, triggerVars, branchVars, mainVars, rpc, pipeFile, procs, claudeStatus,
                 signals, helperSignals, output, resolved, promise, timer, killTimer,
                 aliveAtTimeout, executionFile, result>>

\* catProcess.stdout.pipe(pipeStream) and pipeProcess.stdout.pipe(claudeProcess.stdin):
\* the prompt goes from cat through the pipe to the assistant's stdin
PromptFlows ==
  /\ procs.cat = "running"
  /\ procs.pipe = "running"
  /\ procs.claude = "running"
  /\ pipeIo.writer = "open"
  /\ pipeIo.reader = "attached"
  /\ ~pipeIo.delivered
  /\ pipeIo' = [pipeIo EXCEPT !.delivered = TRUE]
  /\ UNCHANGED <<persisted, inputVars, callVars, triggerVars, branchVars, mainVars, rpc, pipeFile, procs, claudeStatus,
                 signals, helperSignals, output, resolved, promise, timer, killTimer,
                 aliveAtTimeout, executionFile, result>>

\* "Clean up pipe file": await unlink(PIPE_PATH)
UnlinkPipe ==
  /\ rpc = "cleanup"
  /\ pipeFile' = "none"
  /\ rpc' = "artifact"
  /\ UNCHANGED <<persisted, pipeIo, inputVars, callVars, triggerVars, branchVars, mainVars, procs, claudeStatus, signals, helperSignals,
                 output, resolved, promise, timer, killTimer, aliveAtTimeout,
                 executionFile, result>>

ShouldPersistMutant(code, out) == code = 0

\* if (exitCode === 0) ... else if (output): the execution file is attempted
ShouldPersist(code, out) == code = 0 \/ out > 0

\* "Process output and create execution file": writeFile or jq may fail, and
\* both branches catch what they throw
WriteArtifact ==
  /\ rpc = "artifact"
  /\ IF ShouldPersist(Get(promise), output)
     THEN \/ executionFile' = Some(EXECUTION_FILE) /\ persisted' = "saved"
          \/ executionFile' = None /\ persisted' = "failed"
     ELSE executionFile' = None /\ persisted' = "skipped"
  /\ rpc' = "return"
  /\ UNCHANGED <<pipeIo, inputVars, callVars, triggerVars, branchVars, mainVars, pipeFile, procs, claudeStatus, signals,
                 helperSignals, output, resolved, promise, timer, killTimer,
                 aliveAtTimeout, result>>

\* return { success, executionFile, exitCode }
ReturnResult ==
  /\ rpc = "return"
  /\ result' = Some([success |-> SuccessOf(Get(promise)),
                     executionFile |-> executionFile,
                     exitCode |-> Get(promise)])
  /\ rpc' = "returned"
  /\ UNCHANGED <<persisted, pipeIo, inputVars, callVars, triggerVars, branchVars, mainVars, pipeFile, procs, claudeStatus, signals,
                 helperSignals, output, resolved, promise, timer, killTimer,
                 aliveAtTimeout, executionFile>>

\* Step 14 of main() applied to the result of runClaude: set the outputs; on
\* failure process.exit(exitCode), which ends the process with its timers
\* still pending; on success main() returns and the process ends with 0
SetOutputsStep ==
  /\ rpc = "returned"
  /\ LET r == Get(result) IN
     /\ outputs' = [conclusion |-> Some(IF r.success THEN "success" ELSE "failure"),
                    execution_file |-> r.executionFile]
     /\ exitCode' = Some(IF r.success THEN 0 ELSE r.exitCode)
  /\ killTimer' = IF killTimer = "armed" THEN "dropped" ELSE killTimer
  /\ rpc' = "exited"
  /\ UNCHANGED <<persisted, inputVars, callVars, triggerVars, branchVars, pc, event, validateOnly,
                 setFailed, failedAt, commentData, gitAuth, promptPath, mcpConfig,
                 pipeFile, pipeIo, procs, claudeStatus, signals, helperSignals, output,
                 resolved, promise, timer, aliveAtTimeout, executionFile, result>>

RunNext ==
  \/ UnlinkStalePipe
  \/ Mkfifo
  \/ SpawnProcesses
  \/ SpawnThrows
  \/ ClaudeData
  \/ ClaudeExits
  \/ ClaudeClose
  \/ ClaudeError
  \/ TimeoutFires
  \/ KillTimerFires
  \/ PipeProcessError
  \/ CatProcessError
  \/ ReaderAttaches
  \/ PromptFlows
  \/ UnlinkPipe
  \/ WriteArtifact
  \/ ReturnResult
  \/ SetOutputsStep

SpecRun == RunInit /\ [][RunNext]_vars

\* C1: when the timeout fires while the assistant is still running, runClaude
\* returns exitCode 124 and success false, whatever output was captured and
\* whatever status the assistant reports afterwards.
C1_TimeoutYields124 ==
  /\ aliveAtTimeout => promise = Some(TimeoutExitCode)
  /\ (aliveAtTimeout /\ rpc = "returned")
       => /\ Get(result).exitCode = TimeoutExitCode
          /\ Get(result).success = FALSE

\* a timed-out run that had captured output and whose assistant later
\* reported status 0
C1_Witness ==
  /\ rpc = "returned"
  /\ aliveAtTimeout
  /\ output > 0
  /\ procs.claude = "closed"
  /\ claudeStatus = Some(0)
  /\ Get(result).exitCode = TimeoutExitCode

\* C16: on every exit path of runClaude after the pipe was created, returning
\* or throwing, the named pipe has been removed and SIGTERM has been sent to
\* the prompt writer (cat) and to the pipe reader.
C16_CleanupOnEveryExitPath ==
  /\ rpc = "returned" => (pipeFile = "none" /\ helperSignals = {"cat", "pipe"})
  /\ rpc = "threw"
       => /\ pipeFile # "fresh"
          /\ \A h \in {"cat", "pipe"} : procs[h] = "running" => h \in helperSignals

TimeoutTerm == [sig |-> "SIGTERM", by |-> "timeout"]

C22_AssistantGoneAtExit ==
  exitCode = Some(TimeoutExitCode) => procs.claude # "running"

\* C23: the exit code is decided once, by the first of the timeout, the
\* assistant's 'close' and the assistant's 'error'; later events leave it
\* unchanged, the timeout does not fire once cleared, and runClaude produces
\* one result, carrying the decided code.
C23_ExitCodeDecidedOnce ==
  [][ /\ promise # None => promise' = promise
      /\ resolved' <=> promise' # None
      /\ (promise = None /\ promise' # None)
           => \/ /\ timer = "armed" /\ timer' = "fired"
                 /\ promise' = Some(124)
              \/ /\ procs.claude = "exited" /\ procs'.claude = "closed"
                 /\ timer' = "cleared"
                 /\ promise' = Some(IF claudeStatus \in {None, Some(0)} THEN 0
                                    ELSE Get(claudeStatus))
              \/ /\ procs.claude = "spawnFailed" /\ procs'.claude = "errored"
                 /\ timer' = "cleared"
                 /\ promise' = Some(1)
      /\ timer = "cleared" => timer' = "cleared"
      /\ result # None => result' = result
      /\ (result = None /\ result' # None)
           => /\ rpc' = "returned"
              /\ Get(result').exitCode = Get(promise)
    ]_vars

\* the timeout decided 124, and the assistant's close with status 1 came
\* after runClaude's cleanup had begun
C23_Witness ==
  /\ promise = Some(124)
  /\ timer = "fired"
  /\ procs.claude = "closed"
  /\ claudeStatus = Some(1)
  /\ result # None
  /\ Get(result).exitCode = 124

Started(p) == {h \in DOMAIN p : p[h] # "none"}

\* C25: processes are started, and the write stream is created, only on a
\* pipe that this run created after removing what was at the path; the pipe
\* is opened only while the pipe file exists; the write stream is created
\* before the reader attaches and waits for it, and the prompt goes through
\* only once both ends are open.
C25_PipeOrdering ==
  [][ /\ (Started(procs') # Started(procs) \/ pipeIo'.writer # pipeIo.writer)
           => (pipeFile' = "fresh" /\ rpc # "entry" /\ rpc # "mkfifo")
      /\ (rpc = "mkfifo" /\ pipeFile' = "fresh") => pipeFile = "none"
      /\ pipeIo'.reader # pipeIo.reader
           => (pipeFile = "fresh" /\ pipeIo'.reader = "attached"
               /\ pipeIo.writer # "none")
      /\ pipeIo'.writer = "open" => pipeIo'.reader = "attached"
      /\ pipeIo'.delivered
           => (pipeIo'.reader = "attached" /\ pipeIo'.writer \in {"open", "destroyed"})
      /\ pipeIo.delivered => pipeIo'.delivered
    ]_vars

\* the write stream waited for the reader on the pipe this run created, and
\* the prompt then reached the assistant
C25_Witness ==
  /\ pipeIo = [writer |-> "open", reader |-> "attached", delivered |-> TRUE]
  /\ procs.claude = "running"
  /\ pipeFile = "fresh"
  /\ rpc = "waiting"

\* C24: runClaude returns success = true only if the assistant exited by
\* itself with status 0; an assistant ended by a signal or never spawned gives
\* success = false and a non-zero exitCode.
C24_SuccessOnlyOnNormalExit ==
  rpc = "returned"
  => /\ Get(result).success => claudeStatus = Some(0)
     /\ (procs.claude = "errored" \/ (procs.claude = "closed" /\ claudeStatus = None))
          => (~Get(result).success /\ Get(result).exitCode # 0)

HelperErrored == procs.cat = "errored" \/ procs.pipe = "errored"

\* C28: an 'error' of the prompt writer or of the pipe reader sends the
\* assistant no signal, and the exit code of a run in which one occurred is
\* the assistant's own status unless the timeout decided it.
C28_HelperErrorsSpareAssistant ==
  HelperErrored
  => /\ \A k \in 1..Len(signals) : signals[k].by = "timeout" \/ signals[k].by = "killTimer"
     /\ (procs.claude = "closed" /\ promise # None /\ promise # Some(TimeoutExitCode))
          => promise = claudeStatus

\* the helpers are signalled only once the exit code is decided and
\* runClaude has gone on to its cleanup
HelpersSignalledInCleanup ==
  helperSignals # {}
  => /\ promise # None
     /\ rpc \in {"cleanup", "artifact", "return", "returned", "exited"}

\* every signal the assistant was sent came from the timeout callback or from
\* the force-kill timer it armed
OnlyTimeoutCancels ==
  \A k \in 1..Len(signals) : signals[k].by \in {"timeout", "killTimer"}

\* C29: the assistant is signalled only by the timeout (SIGTERM, then the
\* SIGKILL of its timer), and the prompt writer and the pipe reader are
\* signalled only in the cleanup that follows the decision of the exit code.
C29_CancellationOnlyByTimeout ==
  OnlyTimeoutCancels /\ HelpersSignalledInCleanup

\* C30: the execution file is attempted when the exit code is 0 or output
\* was captured, and skipped otherwise; a failed attempt leaves executionFile
\* absent, throws nothing, and the result carries the same success and
\* exitCode as after a successful attempt.
C30_ArtifactBestEffort ==
  /\ persisted # "unset"
       => /\ rpc \in {"return", "returned", "exited"}
          /\ persisted = "skipped" <=> (Get(promise) # 0 /\ output = 0)
          /\ persisted = "saved" <=> executionFile = Some(EXECUTION_FILE)
          /\ persisted = "failed" => executionFile = None
  /\ rpc = "threw" => persisted = "unset"
  /\ rpc = "returned"
       => /\ persisted # "unset"
          /\ Get(result).exitCode = Get(promise)
          /\ Get(result).success = (Get(promise) = 0)
          /\ Get(result).executionFile = executionFile

\* a run that ended with status 0 and could not write its execution file
C30_Witness ==
  /\ rpc = "returned"
  /\ persisted = "failed"
  /\ Get(result) = [success |-> TRUE, executionFile |-> None, exitCode |-> 0]
  /\ claudeStatus = Some(0)

\* ----------------------------- two invocations of runClaude on one host
\* Both invocations resolve the fixed paths in the same file system. Each
\* file is tagged with the invocation that created what is at its path.
ShareInit ==
  /\ config = DefaultConfig
  /\ context = parseGitHubContext("issue_comment", None,
                 [EmptyPayload EXCEPT
                    !.comment = Some([body |-> Some(TriggerPhrase),
                                      user |-> Some("al"), id |-> Some(456)]),
                    !.issue = Some(PlainIssue(42, "absent"))])
  /\ TriggerIdle
  /\ BranchIdle
  /\ MainIdle
  /\ RunIdle
  /\ McpIdle
  /\ EnvIdle
  /\ AuthIdle
  /\ ipc = [i \in Invocations |-> "entry"]
  /\ files = [f \in FixedPaths |-> None]
  /\ opened = [i \in Invocations |-> None]
  /\ jqRead = [i \in Invocations |-> None]

shareRest == <<inputVars, triggerVars, runVars, branchVars, mainVars, mcpVars, envVars, authVars>>

\* await unlink(PIPE_PATH), errors ignored: removes whatever is at the path
SharedUnlinkStalePipe(i) ==
  /\ ipc[i] = "entry"
  /\ files' = [files EXCEPT ![PIPE_PATH] = None]
  /\ ipc' = [ipc EXCEPT ![i] = "mkfifo"]
  /\ UNCHANGED <<shareRest, opened, jqRead>>

\* await $`mkfifo "${PIPE_PATH}"`: EEXIST when something is at the path
SharedMkfifo(i) ==
  /\ ipc[i] = "mkfifo"
  /\ IF files[PIPE_PATH] = None
     THEN /\ files' = [files EXCEPT ![PIPE_PATH] = Some(i)]
          /\ ipc' = [ipc EXCEPT ![i] = "spawn"]
     ELSE /\ files' = files
          /\ ipc' = [ipc EXCEPT ![i] = "threw"]
  /\ UNCHANGED <<shareRest, opened, jqRead>>

\* createWriteStream(PIPE_PATH) and spawn('cat', [PIPE_PATH]) open what is at
\* the path now; the write stream creates a file where nothing is
SharedSpawn(i) ==
  /\ ipc[i] = "spawn"
  /\ IF files[PIPE_PATH] = None
     THEN /\ files' = [files EXCEPT ![PIPE_PATH] = Some(i)]
          /\ opened' = [opened EXCEPT ![i] = Some(i)]
     ELSE /\ files' = files
          /\ opened' = [opened EXCEPT ![i] = files[PIPE_PATH]]
  /\ ipc' = [ipc EXCEPT ![i] = "waiting"]
  /\ UNCHANGED <<shareRest, jqRead>>

\* the exit-code promise resolves; the helpers are signalled
SharedResolve(i) ==
  /\ ipc[i] = "waiting"
  /\ ipc' = [ipc EXCEPT ![i] = "cleanup"]
  /\ UNCHANGED <<shareRest, files, opened, jqRead>>

\* "Clean up pipe file": await unlink(PIPE_PATH)
SharedUnlinkPipe(i) ==
  /\ ipc[i] = "cleanup"
  /\ files' = [files EXCEPT ![PIPE_PATH] = None]
  /\ ipc' = [ipc EXCEPT ![i] = "artifact"]
  /\ UNCHANGED <<shareRest, opened, jqRead>>

\* writeFile('/tmp/output.txt', output), or nothing on a failure without output
SharedWriteOutput(i) ==
  /\ ipc[i] = "artifact"
  /\ \/ /\ files' = [files EXCEPT ![OutputTxt] = Some(i)]
        /\ ipc' = [ipc EXCEPT ![i] = "jq"]
     \/ /\ files' = files
        /\ ipc' = [ipc EXCEPT ![i] = "done"]
  /\ UNCHANGED <<shareRest, opened, jqRead>>

\* jq -s '.' /tmp/output.txt, then writeFile(EXECUTION_FILE, jsonOutput)
SharedJq(i) ==
  /\ ipc[i] = "jq"
  /\ jqRead' = [jqRead EXCEPT ![i] = files[OutputTxt]]
  /\ files' = [files EXCEPT ![EXECUTION_FILE] = Some(i)]
  /\ ipc' = [ipc EXCEPT ![i] = "done"]
  /\ UNCHANGED <<shareRest, opened>>

ShareNext ==
  \E i \in Invocations :
    \/ SharedUnlinkStalePipe(i)
    \/ SharedMkfifo(i)
    \/ SharedSpawn(i)
    \/ SharedResolve(i)
    \/ SharedUnlinkPipe(i)
    \/ SharedWriteOutput(i)
    \/ SharedJq(i)

SpecShare == ShareInit /\ [][ShareNext]_vars

Running(i) == ipc[i] \notin {"done", "threw"}

\* C26: a step of one invocation never removes or replaces a file that another
\* running invocation created, and an invocation opens the pipe and reads the
\* output file of no invocation but itself.
C26_InvocationsOwnTheirFiles ==
  [][ \A i \in Invocations :
        ipc'[i] # ipc[i]
          => /\ \A f \in FixedPaths :
                  files'[f] # files[f]
                    => \A j \in Invocations \ {i} :
                         files[f] = Some(j) => ~Running(j)
             /\ opened'[i] \in {None, Some(i)}
             /\ jqRead'[i] \in {None, Some(i)}
    ]_vars

\* ------------------------------------------------------ branch coordinator
Clocks == [sec : 0..MaxSecond, ms : {0, 500}]

Pad2(n) == <<DigitChar(n \div 10), DigitChar(n % 10)>>
Pad3(n) == <<DigitChar(n \div 100), DigitChar((n \div 10) % 10), DigitChar(n % 10)>>

\* new Date().toISOString(), on 2025-01-01 in the minute 12:00 UTC
toISOString(clock) ==
  <<"2", "0", "2", "5", "-", "0", "1", "-", "0", "1", "T", "1", "2", ":", "0", "0", ":">>
    \o Pad2(clock.sec) \o <<".">> \o Pad3(clock.ms) \o <<"Z">>

IsDigit(ch) == ch \in {"0", "1", "2", "3", "4", "5", "6", "7", "8", "9"}

\* .replace(/[:-]/g, '')
RemoveColonsAndDashes(str) == SelectSeq(str, LAMBDA ch : ch \notin {":", "-"})

MillisAt(str, i) ==
  /\ i + 4 <= Len(str)
  /\ str[i] = "."
  /\ IsDigit(str[i + 1]) /\ IsDigit(str[i + 2]) /\ IsDigit(str[i + 3])
  /\ str[i + 4] = "Z"

\* .replace(/\.\d{3}Z/, ''): the first match only
RemoveMillis(str) ==
  IF \E i \in 1..Len(str) : MillisAt(str, i)
  THEN LET i == CHOOSE k \in 1..Len(str) :
                  MillisAt(str, k) /\ \A j \in 1..(k - 1) : ~MillisAt(str, j)
       IN  SubSeq(str, 1, i - 1) \o SubSeq(str, i + 5, Len(str))
  ELSE str

\* .split('T').join('_')
SplitTJoinUnderscore(str) ==
  [i \in 1..Len(str) |-> IF str[i] = "T" THEN "_" ELSE str[i]]

TimestampMutant(clock) ==
  SplitTJoinUnderscore(RemoveColonsAndDashes(toISOString(clock)))

Timestamp(clock) ==
  SplitTJoinUnderscore(RemoveMillis(RemoveColonsAndDashes(toISOString(clock))))

EntityTypeMutant(isPR) == <<"i", "s", "s", "u", "e">>

\* const entityType = isPR ? 'pr' : 'issue'
EntityType(isPR) == IF isPR THEN <<"p", "r">> ELSE <<"i", "s", "s", "u", "e">>

\* `${branchPrefix}${entityType}-${entityNumber}-${timestamp}`
NewBranchName(prefix, isPR, number, clock) ==
  prefix \o EntityType(isPR) \o <<"-">> \o NumToString(number) \o <<"-">>
    \o Timestamp(clock)

\* Math.max(prData.commits || 1, 20)
FetchDepth(commits) ==
  LET commitCount == IF IsSome(commits) /\ Get(commits) # 0 THEN Get(commits) ELSE 1
  IN  IF commitCount > 20 THEN commitCount ELSE 20

Op(name, ref, depth) == [op |-> name, ref |-> ref, depth |-> depth, ok |-> TRUE]

\* the default branch the hosting API reports for the repository
DefaultBranch == MainRef

OpenPrInfoMutant(pr) ==
  [threw |-> FALSE, baseBranch |-> Some(pr.base), claudeBranch |-> Some(pr.head),
   currentBranch |-> Some(pr.base)]

\* return { baseBranch: prData.base.ref, currentBranch: branchName }
OpenPrInfo(pr) ==
  [threw |-> FALSE, baseBranch |-> Some(pr.base), claudeBranch |-> None,
   currentBranch |-> Some(pr.head)]

\* return { baseBranch: sourceBranch, claudeBranch: newBranch, currentBranch: newBranch }
NewBranchInfo(sourceBranch, newBranch) ==
  [threw |-> FALSE, baseBranch |-> Some(sourceBranch), claudeBranch |-> Some(newBranch),
   currentBranch |-> Some(newBranch)]

BranchThrew == [threw |-> TRUE, baseBranch |-> None, claudeBranch |-> None,
                currentBranch |-> None]

\* prState === 'closed' || prState === 'merged'
ClosedOrMerged(state) == state \in {"closed", "merged"}

SourceBranchMutant(cfg) == DefaultBranch

\* if (baseBranch) sourceBranch = baseBranch, else the default branch reported
SourceBranch(cfg) ==
  IF Truthy(cfg.baseBranch) THEN Get(cfg.baseBranch) ELSE DefaultBranch

NewBranchStepsMutant(sourceBranch, newBranch) ==
  <<Op("getRef", sourceBranch, 0), Op("fetch", newBranch, 1),
    Op("createRef", newBranch, 0), Op("checkout", newBranch, 0)>>

\* getRef of the source branch, createRef of the new one, git fetch --depth=1,
\* git checkout
NewBranchSteps(sourceBranch, newBranch) ==
  <<Op("getRef", sourceBranch, 0), Op("createRef", newBranch, 0),
    Op("fetch", newBranch, 1), Op("checkout", newBranch, 0)>>

\* the requests and commands setupBranch issues when none of them fails
BranchPlan(ctx, cfg, clock) ==
  IF ctx.isPR /\ ~ClosedOrMerged(Get(ctx.payload.pull_request).state)
  THEN LET pr == Get(ctx.payload.pull_request) IN
       <<Op("fetch", pr.head, FetchDepth(pr.commits)), Op("checkout", pr.head, 0)>>
  ELSE LET sourceBranch == SourceBranch(cfg)
           newBranch == NewBranchName(cfg.branchPrefix, ctx.isPR, ctx.entityNumber, clock)
           lookup == IF Truthy(cfg.baseBranch) THEN <<>> ELSE <<Op("getRepo", <<>>, 0)>>
       IN  lookup \o NewBranchSteps(sourceBranch, newBranch)

\* a request fails when the environment makes it fail (failAt), when the ref to
\* read does not exist, or when the ref to create already exists
OpFails(plan, k, refs, failAt) ==
  \/ k = failAt
  \/ plan[k].op = "getRef" /\ plan[k].ref \notin refs
  \/ plan[k].op = "createRef" /\ plan[k].ref \in refs

FirstFailure(plan, refs, failAt) ==
  IF \E k \in 1..Len(plan) : OpFails(plan, k, refs, failAt)
  THEN CHOOSE k \in 1..Len(plan) :
         /\ OpFails(plan, k, refs, failAt)
         /\ \A j \in 1..(k - 1) : ~OpFails(plan, j, refs, failAt)
  ELSE 0

setupBranch(ctx, cfg, clock, refs, tree, failAt) ==
  IF ctx.isPR /\ ~IsSome(ctx.payload.pull_request)
  THEN \* prData is undefined: reading prData.state raises
       [info |-> BranchThrew, ops |-> <<>>, refs |-> refs, tree |-> tree, now |-> None]
  ELSE
    LET plan == BranchPlan(ctx, cfg, clock)
        bad == FirstFailure(plan, refs, failAt)
        last == IF bad = 0 THEN Len(plan) ELSE bad
        issued == [k \in 1..last |-> [plan[k] EXCEPT !.ok = (k # bad)]]
        done(name) == {k \in 1..last : issued[k].ok /\ issued[k].op = name}
        reuse == ctx.isPR /\ ~ClosedOrMerged(Get(ctx.payload.pull_request).state)
    IN  [info |-> IF bad # 0 THEN BranchThrew
                  ELSE IF reuse THEN OpenPrInfo(Get(ctx.payload.pull_request))
                  ELSE NewBranchInfo(plan[Len(plan) - 3].ref, plan[Len(plan)].ref),
         ops |-> issued,
         refs |-> refs \cup {issued[k].ref : k \in done("createRef")},
         tree |-> IF done("checkout") # {} THEN Some(plan[Len(plan)].ref) ELSE tree,
         \* new Date() is read after the source branch is determined
         now |-> IF ~reuse /\ (bad = 0 \/ plan[bad].op # "getRepo")
                 THEN Some(clock) ELSE None]

\* ---------------------------------------------- direct calls of setupBranch
BranchPayloadsOf(name) ==
  CASE name = "issue_comment" ->
         {[EmptyPayload EXCEPT
             !.comment = Some([body |-> Some(TriggerPhrase), user |-> Some("al"),
                               id |-> Some(456)]),
             !.issue = Some(PlainIssue(n, linked))] :
            n \in EntityNumbers, linked \in Linkages}
    [] name = "issues" ->
         {[EmptyPayload EXCEPT !.issue = Some(PlainIssue(n, "absent"))] :
            n \in EntityNumbers}
    [] name = "pull_request" ->
         {[EmptyPayload EXCEPT !.pull_request = Some(p)] :
            p \in PullRequestObjects(EntityNumbers, {TriggerPhrase}, PrStates)}
    [] name = "pull_request_review" ->
         {[EmptyPayload EXCEPT !.pull_request = Some(PlainPullRequest(7, st)),
                               !.review = Some([body |-> Some(TriggerPhrase),
                                                user |-> Some("al")])] :
            st \in PrStates}
    [] name = "pull_request_review_comment" ->
         {[EmptyPayload EXCEPT
             !.comment = Some([body |-> Some(TriggerPhrase), user |-> Some("al"),
                               id |-> Some(456)]),
             !.pull_request = Some(PlainPullRequest(7, st))] :
            st \in PrStates}

BranchConfigs ==
  {[DefaultConfig EXCEPT !.baseBranch = b, !.branchPrefix = p] :
     b \in Opt({DevRef}), p \in {DefaultConfig.branchPrefix, <<"x", "-">>}}

InitialRefs == {MainRef, DevRef, FeatureRef}

BranchInit ==
  /\ \E name \in EventNames :
       \E payload \in BranchPayloadsOf(name) :
         LET parsed == parseGitHubContext(name, None, payload) IN
         /\ ~parsed.threw
         /\ context = parsed
  /\ config \in BranchConfigs
  /\ TriggerIdle
  /\ RunIdle
  /\ MainIdle
  /\ CallIdle
  /\ bpc = "call"
  /\ remoteRefs = InitialRefs
  /\ ops = <<>>
  /\ checkedOut = Some(MainRef)
  /\ branchInfo = NoBranch
  /\ now = None
  /\ earlier = <<>>

SetupBranchCall ==
  /\ bpc = "call"
  /\ \E clock \in Clocks, failAt \in 0..5 :
       LET r == setupBranch(context, config, clock, remoteRefs, checkedOut, failAt) IN
       /\ branchInfo' = r.info
       /\ ops' = ops \o r.ops
       /\ remoteRefs' = r.refs
       /\ checkedOut' = r.tree
       /\ now' = r.now
  /\ bpc' = "returned"
  /\ UNCHANGED <<inputVars, callVars, triggerVars, runVars, mainVars, earlier>>

BranchNext == SetupBranchCall

SpecBranch == BranchInit /\ [][BranchNext]_vars

OpNames == {ops[k].op : k \in 1..Len(ops)}

PrObject == Get(context.payload.pull_request)

OpenPr ==
  /\ context.isPR
  /\ IsSome(context.payload.pull_request)
  /\ PrObject.state = "open"

\* C9: for an open pull request setupBranch reads and creates no ref, fetches
\* and checks out the PR's head ref, and returns currentBranch = head ref,
\* baseBranch = base ref and no claudeBranch.
C9_OpenPrReusesBranch ==
  ( bpc = "returned" /\ OpenPr )
  => /\ OpNames \cap {"getRepo", "getRef", "createRef"} = {}
     /\ remoteRefs = InitialRefs
     /\ \A k \in 1..Len(ops) : ops[k].ref = PrObject.head
     /\ ~branchInfo.threw
        => /\ Len(ops) = 2
           /\ ops[1].op = "fetch" /\ ops[1].ok
           /\ ops[2].op = "checkout" /\ ops[2].ok
           /\ checkedOut = Some(PrObject.head)
           /\ branchInfo.currentBranch = Some(PrObject.head)
           /\ branchInfo.baseBranch = Some(PrObject.base)
           /\ branchInfo.claudeBranch = None

\* an open pull request whose head branch was checked out and returned
C9_Witness ==
  /\ bpc = "returned"
  /\ OpenPr
  /\ ~branchInfo.threw
  /\ branchInfo.currentBranch = Some(FeatureRef)
  /\ checkedOut = Some(FeatureRef)

MintCase ==
  \/ ~context.isPR
  \/ /\ context.isPR
     /\ IsSome(context.payload.pull_request)
     /\ PrObject.state \in {"closed", "merged"}

\* the compact UTC timestamps of the minute the clock is read in
CompactStamps ==
  {<<"2", "0", "2", "5", "0", "1", "0", "1", "_", "1", "2", "0", "0">> \o Pad2(sec) :
     sec \in 0..MaxSecond}

ExpectedSource ==
  IF IsSome(config.baseBranch) THEN Get(config.baseBranch) ELSE DefaultBranch

\* C10: for an issue, or a closed or merged pull request, setupBranch returns
\* a newly minted branch prefix + kind + "-" + number + "-" + UTC timestamp
\* (kind 'issue' for an issue, 'pr' for a pull request) as currentBranch and
\* claudeBranch, with baseBranch the source branch.
C10_MintedBranchName ==
  ( bpc = "returned" /\ MintCase /\ ~branchInfo.threw )
  => /\ \E stamp \in CompactStamps :
          branchInfo.currentBranch =
            Some(config.branchPrefix
                   \o (IF context.isPR THEN <<"p", "r">> ELSE <<"i", "s", "s", "u", "e">>)
                   \o <<"-">> \o NumToString(context.entityNumber) \o <<"-">> \o stamp)
     /\ branchInfo.claudeBranch = branchInfo.currentBranch
     /\ branchInfo.baseBranch = Some(ExpectedSource)
     /\ Get(branchInfo.currentBranch) \in remoteRefs \ InitialRefs
     /\ checkedOut = branchInfo.currentBranch

\* a branch minted for a merged pull request
C10_Witness ==
  /\ bpc = "returned"
  /\ context.isPR
  /\ IsSome(context.payload.pull_request)
  /\ PrObject.state = "merged"
  /\ ~branchInfo.threw
  /\ IsSome(branchInfo.claudeBranch)
  /\ checkedOut = branchInfo.claudeBranch

\* what setupBranch issued after determining the source branch
AfterLookup == SelectSeq(ops, LAMBDA o : o.op # "getRepo")

NewBranchOrder == <<"getRef", "createRef", "fetch", "checkout">>

\* C31: on the new-branch path the operations are, in order, getRef of the
\* source branch, createRef of the new branch, fetch of it at depth 1 and its
\* checkout; the first that fails is the last one issued and setupBranch
\* throws; on both paths a BranchInfo is returned only after its currentBranch
\* was checked out.
C31_NewBranchOrder ==
  bpc = "returned"
  => /\ MintCase
          => /\ Len(AfterLookup) <= 4
             /\ \A k \in 1..Len(AfterLookup) :
                  /\ AfterLookup[k].op = NewBranchOrder[k]
                  /\ AfterLookup[k].ok \/ k = Len(AfterLookup)
                  /\ k = 1 => AfterLookup[k].ref = ExpectedSource
                  /\ k > 2 => AfterLookup[k].ref = AfterLookup[2].ref
                  /\ k = 3 => AfterLookup[k].depth = 1
     /\ (\E k \in 1..Len(ops) : ~ops[k].ok)
          => /\ branchInfo.threw
             /\ ~ops[Len(ops)].ok
             /\ \A k \in 1..(Len(ops) - 1) : ops[k].ok
     /\ ~branchInfo.threw
          => /\ ops # <<>>
             /\ ops[Len(ops)] = [op |-> "checkout", ref |-> Get(branchInfo.currentBranch),
                                 depth |-> 0, ok |-> TRUE]
             /\ checkedOut = branchInfo.currentBranch

\* the fetch of a newly created branch failed: the ref exists, nothing was
\* checked out and setupBranch threw
C31_Witness ==
  /\ bpc = "returned"
  /\ MintCase
  /\ Len(AfterLookup) = 3
  /\ AfterLookup[2].ok
  /\ ~AfterLookup[3].ok
  /\ branchInfo.threw
  /\ checkedOut = Some(MainRef)

RepoLookups == {k \in 1..Len(ops) : ops[k].op = "getRepo"}

\* C32: on the new-branch path a configured base branch is the source branch
\* and no default-branch request is made; without one exactly one
\* default-branch request is made, first, and its answer is the source
\* branch; if that request fails no ref is read or created.
C32_SourceBranchResolution ==
  ( bpc = "returned" /\ MintCase )
  => /\ IsSome(config.baseBranch)
          => /\ RepoLookups = {}
             /\ \A k \in 1..Len(ops) :
                  ops[k].op = "getRef" => ops[k].ref = Get(config.baseBranch)
             /\ ~branchInfo.threw => branchInfo.baseBranch = config.baseBranch
     /\ ~IsSome(config.baseBranch)
          => /\ RepoLookups = {1}
             /\ ops[1].ok
                  => /\ \A k \in 1..Len(ops) :
                          ops[k].op = "getRef" => ops[k].ref = DefaultBranch
                     /\ ~branchInfo.threw => branchInfo.baseBranch = Some(DefaultBranch)
             /\ ~ops[1].ok
                  => /\ Len(ops) = 1
                     /\ branchInfo.threw
                     /\ remoteRefs = InitialRefs

\* an issue branched from the configured base branch without asking for the
\* default branch
C32_Witness ==
  /\ bpc = "returned"
  /\ ~context.isPR
  /\ config.baseBranch = Some(DevRef)
  /\ ~branchInfo.threw
  /\ branchInfo.baseBranch = Some(DevRef)
  /\ ops[1].op = "getRef" /\ ops[1].ref = DevRef

PullRequestEvents == {"pull_request_review_comment", "pull_request_review", "pull_request"}

\* C40: for an issue_comment event isPR holds exactly when the issue object
\* carries a non-null pull request linkage, and entityNumber is the issue's
\* number either way; the three pull request events always give isPR = TRUE
\* and an issues event always gives isPR = FALSE.
C40_NormalizerIsPr ==
  /\ ~context.threw
  /\ context.eventName = "issue_comment" =>
       /\ context.isPR <=> Get(context.payload.issue).pull_request \notin {"absent", "null"}
       /\ context.entityNumber = Get(context.payload.issue).number
  /\ context.eventName \in PullRequestEvents => context.isPR
  /\ context.eventName = "issues" => ~context.isPR

C40_Witness ==
  /\ bpc # "call"
  /\ context.eventName = "issue_comment"
  /\ Get(context.payload.issue).pull_request = "null"
  /\ ~context.isPR
  /\ context.entityNumber = 7

\* C33: whenever the normalizer reported a pull request, setupBranch has the
\* pull request's state, head and base to act on, and it ends by returning a
\* BranchInfo (the head ref when open, a minted branch when closed or merged)
\* or by throwing for a request or command that failed.
C33_PrStateMachineForEveryPrEvent ==
  ( bpc = "returned" /\ context.isPR )
  => /\ IsSome(context.payload.pull_request)
     /\ branchInfo.threw => (ops # <<>> /\ ~ops[Len(ops)].ok)
     /\ ~branchInfo.threw
          => IF PrObject.state = "open"
             THEN branchInfo.currentBranch = Some(PrObject.head)
             ELSE IsSome(branchInfo.claudeBranch)

\* ------------------------- successive invocations against one repository
\* a later run of the action for the same entity: a fresh container and
\* checkout, the same remote repository
InvokeAgain ==
  /\ bpc = "returned"
  /\ Len(earlier) + 1 < MaxRuns
  /\ earlier' = Append(earlier, [now |-> now, info |-> branchInfo, ops |-> ops])
  /\ bpc' = "call"
  /\ ops' = <<>>
  /\ checkedOut' = Some(MainRef)
  /\ branchInfo' = NoBranch
  /\ now' = None
  /\ UNCHANGED <<inputVars, callVars, triggerVars, runVars, mainVars, remoteRefs>>

MintNext == SetupBranchCall \/ InvokeAgain

SpecMint == BranchInit /\ [][MintNext]_vars

\* the invocations that have returned, oldest first
Runs ==
  IF bpc = "returned"
  THEN Append(earlier, [now |-> now, info |-> branchInfo, ops |-> ops])
  ELSE earlier

\* the name an invocation handed to createRef (at most one)
NewBranchOf(run) ==
  {run.ops[k].ref : k \in {i \in 1..Len(run.ops) : run.ops[i].op = "createRef"}}

Created(run) ==
  \E k \in 1..Len(run.ops) : run.ops[k].op = "createRef" /\ run.ops[k].ok

\* the last 15 characters are YYYYMMDD_HHMMSS
CompactSuffix(name) ==
  /\ Len(name) > 15
  /\ \A k \in 1..15 :
       LET ch == name[Len(name) - 15 + k] IN
       IF k = 9 THEN ch = "_" ELSE IsDigit(ch)

SameButSuffix(n1, n2) ==
  /\ Len(n1) = Len(n2)
  /\ SubSeq(n1, 1, Len(n1) - 15) = SubSeq(n2, 1, Len(n2) - 15)

\* C11: two invocations of setupBranch for the same prefix, entity kind and
\* entity number that read the clock in different UTC seconds mint distinct
\* branch names; the names differ only in the timestamp suffix, which is
\* digits with '_' between date and time, and both refs exist once created.
C11_DistinctTimestampsDistinctNames ==
  \A i \in 1..Len(Runs) : \A j \in (i + 1)..Len(Runs) :
    \A n1 \in NewBranchOf(Runs[i]), n2 \in NewBranchOf(Runs[j]) :
      Get(Runs[i].now).sec # Get(Runs[j].now).sec
      => /\ n1 # n2
         /\ SameButSuffix(n1, n2)
         /\ CompactSuffix(n1) /\ CompactSuffix(n2)
         /\ (Created(Runs[i]) /\ Created(Runs[j])) => {n1, n2} \subseteq remoteRefs

\* issue #7 minted twice, one second apart, both branches created
C11_Witness ==
  /\ Len(Runs) = 2
  /\ ~context.isPR /\ context.entityNumber = 7
  /\ Runs[1].now = Some([sec |-> 0, ms |-> 0])
  /\ Runs[2].now = Some([sec |-> 1, ms |-> 0])
  /\ ~Runs[1].info.threw /\ ~Runs[2].info.threw
  /\ Runs[1].info.claudeBranch # Runs[2].info.claudeBranch
  /\ {Get(Runs[1].info.claudeBranch), Get(Runs[2].info.claudeBranch)} \subseteq remoteRefs

\* C27: any two invocations of setupBranch for the same prefix, entity kind
\* and entity number mint different branch names, also when they read the
\* clock within the same UTC second.
C27_NamesUniquePerInvocation ==
  \A i \in 1..Len(Runs) : \A j \in (i + 1)..Len(Runs) :
    \A n1 \in NewBranchOf(Runs[i]), n2 \in NewBranchOf(Runs[j]) : n1 # n2

\* ------------------------------------------------ capability config merger
GitHubToolPrefix == <<"m", "c", "p", "_", "_", "g", "i", "t", "h", "u", "b", "_", "_">>

\* String.prototype.startsWith
StartsWith(str, prefix) ==
  Len(str) >= Len(prefix) /\ SubSeq(str, 1, Len(prefix)) = prefix

\* String.prototype.trim, for spaces
RECURSIVE TrimLeft(_)
TrimLeft(str) ==
  IF str # <<>> /\ Head(str) = " " THEN TrimLeft(Tail(str)) ELSE str

RECURSIVE TrimRight(_)
TrimRight(str) ==
  IF str # <<>> /\ str[Len(str)] = " "
  THEN TrimRight(SubSeq(str, 1, Len(str) - 1)) ELSE str

Trim(str) == TrimRight(TrimLeft(str))

\* String.prototype.split(',')
RECURSIVE SplitCommas(_)
SplitCommas(str) ==
  IF \E i \in 1..Len(str) : str[i] = ","
  THEN LET i == CHOOSE k \in 1..Len(str) :
                  str[k] = "," /\ \A j \in 1..(k - 1) : str[j] # ","
       IN  <<SubSeq(str, 1, i - 1)>> \o SplitCommas(SubSeq(str, i + 1, Len(str)))
  ELSE <<str>>

\* config.allowedTools ? config.allowedTools.split(',').map(t => t.trim()) : []
AllowedToolsList(allowedTools) ==
  IF Truthy(allowedTools)
  THEN LET parts == SplitCommas(Get(allowedTools))
       IN  [i \in 1..Len(parts) |-> Trim(parts[i])]
  ELSE <<>>

DescriptorMutant(command, token, commentId, branch) ==
  [command |-> command, token |-> token, commentId |-> None, branch |-> branch]

Descriptor(command, token, commentId, branch) ==
  [command |-> command, token |-> token, commentId |-> commentId, branch |-> branch]

SpreadMutant(base, override) ==
  [k \in DOMAIN base \cup DOMAIN override |->
     IF k \in DOMAIN base THEN base[k] ELSE override[k]]

\* {...base, ...override}
Spread(base, override) ==
  [k \in DOMAIN base \cup DOMAIN override |->
     IF k \in DOMAIN override THEN override[k] ELSE base[k]]

\* the outer catch: core.setFailed(...) and process.exit(1)
McpExited == [exited |-> TRUE, config |-> None, warnings |-> {}, probes |-> 0]

\* the value JSON.parse yields for the additional document: its own
\* enumerable keys other than mcpServers, and its mcpServers entry
AdditionalTop(doc) ==
  CASE doc.kind = "object" -> doc.top
    [] doc.kind = "array" -> [i \in {NumToString(k - 1) : k \in 1..doc.items} |-> "item"]
    [] OTHER -> <<>>

AdditionalServers(doc) ==
  IF doc.kind = "object" /\ IsSome(doc.servers) THEN Get(doc.servers) ELSE <<>>

\* additionalMcpConfig && additionalMcpConfig.trim()
Supplied(doc) == doc.kind \notin {"absent", "blank"}

\* JSON.parse succeeded and typeof value === "object" && value !== null
ParsesToObject(doc) == doc.kind \in {"object", "array"}

HasGitHubMcpToolsMutant(tools) ==
  \E i \in 1..Len(tools) :
    StartsWith(tools[i], SubSeq(GitHubToolPrefix, 1, Len(GitHubToolPrefix) - 2))

\* allowedToolsList.some((tool) => tool.startsWith("mcp__github__"))
HasGitHubMcpTools(tools) ==
  \E i \in 1..Len(tools) : StartsWith(tools[i], GitHubToolPrefix)

FileOpsMutant(inputs, branch) ==
  "github_file_ops" :> Descriptor("npx", "github", None, Some(branch))

\* if (context.inputs.useCommitSigning) mcpServers.github_file_ops = {...
\* GITHUB_BRANCH: branch }
FileOps(inputs, branch) ==
  IF inputs.useCommitSigning
  THEN "github_file_ops" :> Descriptor("npx", "github", None, Some(branch))
  ELSE <<>>

prepareMcpConfig(params, hasActionsToken, probeOk) ==
  IF "inputs" \notin DOMAIN params.context
  THEN \* context.inputs is undefined: reading useCommitSigning raises
       McpExited
  ELSE
    LET inputs == params.context.inputs
        tools == params.allowedTools
        hasGitHubMcpTools == HasGitHubMcpTools(tools)
        comment ==
          "github_comment" :>
             Descriptor("npx", "github",
                        IF Truthy(params.claudeCommentId) THEN params.claudeCommentId
                        ELSE None, None)
        fileOps == FileOps(inputs, params.branch)
        wantsCi == params.context.isPR /\ inputs.actionsRead
        ci ==
          IF wantsCi
          THEN "github_ci" :>
                 Descriptor("npx", IF hasActionsToken THEN "actions" ELSE "github",
                            None, None)
          ELSE <<>>
        github ==
          IF hasGitHubMcpTools
          THEN "github" :> Descriptor("docker", "github", None, None)
          ELSE <<>>
        baseServers == Spread(Spread(Spread(comment, fileOps), ci), github)
        probeWarning == IF wantsCi /\ ~probeOk THEN {"actions-permission"} ELSE {}
        doc == params.additionalMcpConfig
    IN  IF Supplied(doc) /\ ParsesToObject(doc)
        THEN [exited |-> FALSE,
              config |-> Some([top |-> AdditionalTop(doc),
                               mcpServers |-> Spread(baseServers, AdditionalServers(doc))]),
              warnings |-> probeWarning,
              probes |-> IF wantsCi THEN 1 ELSE 0]
        ELSE [exited |-> FALSE,
              config |-> Some([top |-> <<>>, mcpServers |-> baseServers]),
              warnings |-> probeWarning
                             \cup (IF Supplied(doc) THEN {"additional-config"} ELSE {}),
              probes |-> IF wantsCi THEN 1 ELSE 0]

\* ------------------------------------------ direct calls of prepareMcpConfig
TrackingCommentId == 900

\* a descriptor a caller supplies in INPUT_MCP_CONFIG
CustomDescriptor == Descriptor("uvx", "own", None, None)

ServerMaps ==
  {[n \in names |-> CustomDescriptor] :
     names \in SUBSET {"github_comment", "github_ci", "github_file_ops", "github", "extra"}}

\* what INPUT_MCP_CONFIG holds: nothing, blanks, text that is not JSON, or
\* JSON whose top level is a scalar, null, an array or an object
Documents ==
  {[kind |-> k] : k \in {"absent", "blank", "invalid", "number", "string", "boolean",
                         "null"}}
    \cup {[kind |-> "array", items |-> n] : n \in 0..1}
    \cup {[kind |-> "object", top |-> t, servers |-> sv] :
            t \in {<<>>, [theme |-> "dark"]}, sv \in Opt(ServerMaps)}

\* a ParsedGitHubContext (with inputs), or the GitHubEventContext main() passes
McpContexts ==
  {[isPR |-> p, inputs |-> [useCommitSigning |-> sg, actionsRead |-> ar]] :
     p \in BOOLEAN, sg \in BOOLEAN, ar \in BOOLEAN}
    \cup {[isPR |-> p] : p \in BOOLEAN}

\* tool names under the prefixes of the comment and file-operations servers
CommentTool == <<"m", "c", "p", "_", "_", "g", "i", "t", "h", "u", "b", "_",
                 "c", "o", "m", "m", "e", "n", "t", "_", "_", "x">>
FileOpsTool == <<"m", "c", "p", "_", "_", "g", "i", "t", "h", "u", "b", "_",
                 "f", "i", "l", "e", "_", "o", "p", "s", "_", "_", "x">>

ToolLists ==
  {<<>>, <<<<"E", "d", "i", "t">>>>, <<<<"E", "d", "i", "t">>, GitHubToolPrefix \o <<"x">>>>,
   <<CommentTool, FileOpsTool>>, <<CommentTool, GitHubToolPrefix>>}

McpInit ==
  /\ mcpParams \in [branch : {FeatureRef},
                    additionalMcpConfig : Documents,
                    claudeCommentId : Opt({NumToString(TrackingCommentId)}),
                    allowedTools : ToolLists,
                    context : McpContexts]
  /\ mcpEnv \in [actionsToken : BOOLEAN, actionsScope : BOOLEAN]
  /\ mpc = "call"
  /\ mcpResult = NoMcpResult
  /\ EnvIdle
  /\ ShareIdle
  /\ AuthIdle
  /\ config = DefaultConfig
  /\ context = ParseThrew
  /\ TriggerIdle
  /\ RunIdle
  /\ BranchIdle
  /\ MainIdle

PrepareMcpCall ==
  /\ mpc = "call"
  /\ LET r == prepareMcpConfig(mcpParams, mcpEnv.actionsToken, mcpEnv.actionsScope) IN
     /\ mcpResult' = r
     /\ mpc' = IF r.exited THEN "exited" ELSE "returned"
  /\ UNCHANGED <<inputVars, triggerVars, runVars, branchVars, mainVars, envVars, shareVars, authVars,
                 mcpParams, mcpEnv>>

McpNext == PrepareMcpCall

SpecMcp == McpInit /\ [][McpNext]_vars

Document == mcpParams.additionalMcpConfig

\* the descriptor map of the returned config
Servers == Get(mcpResult.config).mcpServers

\* the descriptors the caller's document supplies
Override ==
  IF Document.kind = "object" /\ IsSome(Document.servers)
  THEN Get(Document.servers) ELSE <<>>

\* the descriptor map the same call builds when no document is supplied
BuiltIn ==
  Get(prepareMcpConfig([mcpParams EXCEPT !.additionalMcpConfig = NoDocument],
                       mcpEnv.actionsToken, mcpEnv.actionsScope).config).mcpServers

\* C12: when the additional document parses to an object, the merged
\* descriptor map has exactly the built-in names and the override's names,
\* the override's descriptor for each of its names and the built-in one for
\* the others; the other top-level keys are the override's; merging
\* {a: 1, b: 2} with {b: 3, c: 4} gives {a: 1, b: 3, c: 4}.
C12_MergeOverrideWins ==
  /\ Spread([a |-> 1, b |-> 2], [b |-> 3, c |-> 4]) = [a |-> 1, b |-> 3, c |-> 4]
  /\ (mpc = "returned" /\ Document.kind = "object")
     => /\ DOMAIN Servers = DOMAIN BuiltIn \cup DOMAIN Override
        /\ \A n \in DOMAIN Servers :
             Servers[n] = IF n \in DOMAIN Override THEN Override[n] ELSE BuiltIn[n]
        /\ Get(mcpResult.config).top = Document.top

\* a pull-request call whose document overrides github_ci and adds 'extra'
C12_Witness ==
  /\ mpc = "returned"
  /\ Document.kind = "object"
  /\ DOMAIN Override = {"github_ci", "extra"}
  /\ "github_ci" \in DOMAIN BuiltIn
  /\ BuiltIn["github_ci"] # CustomDescriptor
  /\ Servers["github_ci"] = CustomDescriptor
  /\ Servers["github_comment"] = BuiltIn["github_comment"]
  /\ Get(mcpResult.config).top = [theme |-> "dark"]

\* C13: every config prepareMcpConfig returns has a github_comment
\* descriptor; unless the additional document supplies one under that name
\* it is the built-in one, carrying the tracked comment id it was given.
C13_CommentDescriptorAlwaysPresent ==
  mpc = "returned"
  => /\ IsSome(mcpResult.config)
     /\ "github_comment" \in DOMAIN Servers
     /\ "github_comment" \notin DOMAIN Override
        => /\ Servers["github_comment"].command = "npx"
           /\ Servers["github_comment"].commentId = mcpParams.claudeCommentId

\* signing on, a pull request, an unparseable document: the descriptor is
\* there with the comment id
C13_Witness ==
  /\ mpc = "returned"
  /\ mcpParams.context.isPR
  /\ mcpParams.context.inputs.useCommitSigning
  /\ Document.kind = "invalid"
  /\ Servers["github_comment"].commentId = Some(NumToString(TrackingCommentId))
  /\ "github_file_ops" \in DOMAIN Servers

\* the caller asked for actions:read on a pull-request event
WantsCi ==
  /\ mcpParams.context.isPR
  /\ mcpParams.context.inputs.actionsRead

\* C14: github_ci is in the returned config iff the event concerns a pull
\* request, actions:read was requested and the permission probe confirms the
\* scope; a failed probe gives a warning and a config without the descriptor.
C14_CiDescriptorGated ==
  (mpc = "returned" /\ "github_ci" \notin DOMAIN Override)
  => /\ "github_ci" \in DOMAIN Servers <=> (WantsCi /\ mcpEnv.actionsScope)
     /\ (WantsCi /\ ~mcpEnv.actionsScope)
        => "actions-permission" \in mcpResult.warnings

\* C15: a supplied document that is not JSON, or whose top level is not an
\* object, gives a warning and exactly the built-in config.
C15_BadDocumentFallsBack ==
  (mpc = "returned" /\ Supplied(Document) /\ Document.kind # "object")
  => /\ "additional-config" \in mcpResult.warnings
     /\ mcpResult.config = Some([top |-> <<>>, mcpServers |-> BuiltIn])

Signing == mcpParams.context.inputs.useCommitSigning

\* C35: the built-in config has github_file_ops iff commit signing is on, and
\* the descriptor carries the branch the call was given; with signing off
\* and no github_file_ops in the additional document the returned config has
\* none.
C35_FileOpsGatedBySigning ==
  mpc = "returned"
  => /\ "github_file_ops" \in DOMAIN BuiltIn <=> Signing
     /\ Signing => BuiltIn["github_file_ops"].branch = Some(mcpParams.branch)
     /\ (Signing /\ "github_file_ops" \notin DOMAIN Override)
          => Servers["github_file_ops"].branch = Some(mcpParams.branch)
     /\ (~Signing /\ "github_file_ops" \notin DOMAIN Override)
          => "github_file_ops" \notin DOMAIN Servers

\* signing on, and a document that adds only 'extra': the file-operations
\* descriptor is returned with the working branch
C35_Witness ==
  /\ mpc = "returned"
  /\ Signing
  /\ Document.kind = "object"
  /\ DOMAIN Override = {"extra"}
  /\ Servers["github_file_ops"].branch = Some(FeatureRef)

\* C36: the built-in config has the github descriptor iff some requested tool
\* name starts with 'mcp__github__'; names under 'mcp__github_comment__' or
\* 'mcp__github_file_ops__' do not bring it in.
C36_GithubDescriptorByPrefix ==
  mpc = "returned"
  => /\ "github" \in DOMAIN BuiltIn
          <=> \E i \in 1..Len(mcpParams.allowedTools) :
                /\ Len(mcpParams.allowedTools[i]) >= 13
                /\ SubSeq(mcpParams.allowedTools[i], 1, 13)
                     = <<"m", "c", "p", "_", "_", "g", "i", "t", "h", "u", "b", "_", "_">>
     /\ mcpParams.allowedTools = <<CommentTool, FileOpsTool>>
          => "github" \notin DOMAIN BuiltIn
     /\ "github" \notin DOMAIN Override
          => ("github" \in DOMAIN Servers <=> "github" \in DOMAIN BuiltIn)

\* only tools of the comment and file-operations servers were requested: a
\* config without the github descriptor
C36_Witness ==
  /\ mpc = "returned"
  /\ mcpParams.allowedTools = <<CommentTool, FileOpsTool>>
  /\ "github" \notin DOMAIN Servers
  /\ "github_comment" \in DOMAIN Servers

\* ---------------------------------------------- credential acquisition
maxRetries == 3
baseDelay == 1000

\* the errors an attempt may reject with
AuthErrors == {"network", "denied"}

LastAttemptMutant(attempt) == attempt > maxRetries

\* if (attempt === maxRetries) throw lastError
LastAttempt(attempt) == attempt = maxRetries

\* baseDelay * Math.pow(2, attempt - 1)
Delay(attempt) == baseDelay * 2 ^ (attempt - 1)

AuthInit ==
  /\ config = DefaultConfig
  /\ context = ParseThrew
  /\ TriggerIdle
  /\ RunIdle
  /\ BranchIdle
  /\ MainIdle
  /\ McpIdle
  /\ EnvIdle
  /\ ShareIdle
  /\ apc = "entry"
  /\ auth \in {[NoAuth EXCEPT !.provided = p] : p \in BOOLEAN}

authRest == <<inputVars, triggerVars, runVars, branchVars, mainVars, mcpVars, envVars,
              shareVars>>

\* if (config.githubToken) return it; else retryWithBackoff(getOidcToken)
SetupGitHubTokenEntry ==
  /\ apc = "entry"
  /\ IF auth.provided
     THEN /\ auth' = [auth EXCEPT !.result = Some("provided")]
          /\ apc' = "returned"
     ELSE /\ auth' = [auth EXCEPT !.phase = "oidc", !.attempt = 1]
          /\ apc' = "attempt"
  /\ UNCHANGED authRest

\* return await fn(): the attempt fulfils; the OIDC token goes on to
\* retryWithBackoff(exchangeForAppToken), the app token is returned
AttemptSucceeds ==
  /\ apc = "attempt"
  /\ LET called == [auth EXCEPT !.calls[auth.phase] = @ + 1] IN
     IF auth.phase = "oidc"
     THEN /\ auth' = [called EXCEPT !.phase = "exchange", !.attempt = 1]
          /\ apc' = "attempt"
     ELSE /\ auth' = [called EXCEPT !.result = Some("app")]
          /\ apc' = "returned"
  /\ UNCHANGED authRest

\* catch (error): remember it and log a warning; throw it after the last
\* attempt, else wait
AttemptFails ==
  /\ apc = "attempt"
  /\ \E e \in AuthErrors :
       LET failed == [auth EXCEPT !.calls[auth.phase] = @ + 1,
                                  !.warned = Append(@, e),
                                  !.lastError = Some([phase |-> auth.phase,
                                                      attempt |-> auth.attempt,
                                                      error |-> e])]
       IN  IF LastAttempt(auth.attempt)
           THEN /\ auth' = [failed EXCEPT !.thrown = failed.lastError]
                /\ apc' = "threw"
           ELSE /\ auth' = [failed EXCEPT
                              !.waits = Append(@, [phase |-> auth.phase,
                                                   after |-> auth.attempt,
                                                   ms |-> Delay(auth.attempt)])]
                /\ apc' = "sleep"
  /\ UNCHANGED authRest

\* the setTimeout(resolve, delay) fires: attempt++, and the loop goes on
\* while attempt <= maxRetries, else throw lastError
BackoffElapses ==
  /\ apc = "sleep"
  /\ IF auth.attempt + 1 <= maxRetries
     THEN /\ auth' = [auth EXCEPT !.attempt = @ + 1]
          /\ apc' = "attempt"
     ELSE /\ auth' = [auth EXCEPT !.attempt = @ + 1, !.thrown = auth.lastError]
          /\ apc' = "threw"
  /\ UNCHANGED authRest

AuthNext ==
  \/ SetupGitHubTokenEntry
  \/ AttemptSucceeds
  \/ AttemptFails
  \/ BackoffElapses

\* every attempt settles and every timer fires
SpecAuth == AuthInit /\ [][AuthNext]_vars /\ WF_vars(AuthNext)

AuthDone == apc \in {"returned", "threw"}

\* the waits of one retry loop, in order
WaitsOf(phase) == SelectSeq(auth.waits, LAMBDA w : w.phase = phase)

AuthSafe ==
  /\ \A ph \in {"oidc", "exchange"} :
       /\ auth.calls[ph] <= 3
       /\ Len(WaitsOf(ph)) <= 2
       /\ \A k \in 1..Len(WaitsOf(ph)) :
            /\ WaitsOf(ph)[k].after = k
            /\ WaitsOf(ph)[k].ms = IF k = 1 THEN 1000 ELSE 2000
  /\ auth.provided => (auth.calls = [oidc |-> 0, exchange |-> 0] /\ auth.waits = <<>>)
  /\ apc = "returned"
       => /\ auth.result = Some(IF auth.provided THEN "provided" ELSE "app")
          /\ auth.thrown = None
          /\ ~auth.provided
               => /\ auth.calls.exchange = Len(WaitsOf("exchange")) + 1
                  /\ auth.calls.oidc = Len(WaitsOf("oidc")) + 1
  /\ apc = "threw"
       => /\ auth.calls[auth.phase] = 3
          /\ Len(WaitsOf(auth.phase)) = 2
          /\ auth.result = None
          /\ auth.thrown = auth.lastError
          /\ Get(auth.lastError).attempt = 3
          /\ Get(auth.lastError).error = auth.warned[Len(auth.warned)]

SupportedEventsMutant == {"issue_comment", "pull_request_review_comment", "issues",
                          "pull_request_review", "pull_request", "push"}

SupportedEvents == {"issue_comment", "pull_request_review_comment", "issues",
                    "pull_request_review", "pull_request"}

\* event kinds GitHub delivers that the action does not handle
UnsupportedEvents == {"push", "workflow_dispatch"}

\* validateGitHubEvent(): "passed", or the message of the error it throws
validateGitHubEvent(eventName) ==
  IF eventName = "" THEN "GITHUB_EVENT_NAME is required"
  ELSE IF eventName \notin SupportedEvents THEN "Unsupported event type"
  ELSE "passed"

PromptFile == "/tmp/claude-prompts/claude-prompt.txt"

MainBodies == {None, Some(<<"C">>), Some(<<"@", "c", "C">>)}

MainComments == [body : MainBodies, user : {Some("al")}, id : Opt(CommentIds)]

\* the event documents main() is started with
MainPayloadsOf(name) ==
  CASE name = "issue_comment" ->
         {[EmptyPayload EXCEPT !.comment = Some(c),
                               !.issue = Some(PlainIssue(42, linked))] :
            c \in MainComments, linked \in Linkages}
    [] name = "pull_request_review_comment" ->
         {[EmptyPayload EXCEPT !.comment = Some(c),
                               !.pull_request = Some(PlainPullRequest(7, st))] :
            c \in MainComments, st \in PrStates}
    [] name = "pull_request_review" ->
         {[EmptyPayload EXCEPT !.review = Some([body |-> b, user |-> Some("al")]),
                               !.pull_request = Some(PlainPullRequest(7, st))] :
            b \in MainBodies, st \in PrStates}
    [] name = "issues" ->
         {[EmptyPayload EXCEPT
             !.issue = Some([PlainIssue(42, "absent") EXCEPT !.body = b]),
             !.assignee = a, !.label = l] :
            b \in MainBodies, a \in Opt({"bot"}), l \in Opt({"claude"})}
    [] name = "pull_request" ->
         {[EmptyPayload EXCEPT
             !.pull_request = Some([PlainPullRequest(7, st) EXCEPT !.body = b])] :
            b \in MainBodies, st \in PrStates}
    [] OTHER -> {EmptyPayload}

MainConfigs ==
  {[DefaultConfig EXCEPT !.directPrompt = d, !.assigneeTrigger = a,
                         !.baseBranch = b, !.useCommitSigning = sg] :
     d \in Opt({<<"C">>}), a \in Opt({"bot"}), b \in Opt({DevRef}), sg \in BOOLEAN}

MainInit ==
  /\ \E name \in SupportedEvents \cup UnsupportedEvents :
       \E payload \in MainPayloadsOf(name), action \in ActionsOf(name) :
         event = [eventName |-> name, eventAction |-> action, payload |-> payload]
  /\ config \in MainConfigs
  /\ validateOnly \in BOOLEAN
  /\ validateOnly => (event.eventName = "push" /\ config = DefaultConfig)
  /\ context = ParseThrew
  /\ TriggerIdle
  /\ RunIdle
  /\ CallIdle
  /\ bpc = "idle"
  /\ remoteRefs = InitialRefs
  /\ ops = <<>>
  /\ checkedOut = Some(MainRef)
  /\ branchInfo = NoBranch
  /\ now = None
  /\ earlier = <<>>
  /\ pc = "parseConfig"
  /\ outputs = NoOutputs
  /\ exitCode = None
  /\ setFailed = FALSE
  /\ failedAt = None
  /\ commentData = None
  /\ gitAuth = FALSE
  /\ promptPath = None
  /\ mcpConfig = None

CatchMutant(step) ==
  /\ failedAt' = Some(step)
  /\ setFailed' = TRUE
  /\ outputs' = [outputs EXCEPT !.conclusion = Some("failure")]
  /\ exitCode' = Some(1)
  /\ pc' = "createPrompt"

\* the catch block of main(): setFailed, conclusion = failure, process.exit(1)
Catch(step) ==
  /\ failedAt' = Some(step)
  /\ setFailed' = TRUE
  /\ outputs' = [outputs EXCEPT !.conclusion = Some("failure")]
  /\ exitCode' = Some(1)
  /\ pc' = "done"

Go(next) ==
  /\ pc' = next
  /\ UNCHANGED <<failedAt, setFailed, outputs, exitCode>>

\* main() returns: the process ends with process.exitCode, 0 unless set
Return ==
  /\ pc' = "done"
  /\ exitCode' = Some(IF setFailed THEN 1 ELSE 0)
  /\ UNCHANGED <<failedAt, setFailed>>

\* Step 1 (and --validate-config): parseEnvironmentConfig, validateConfig
ParseConfigStep ==
  /\ pc = "parseConfig"
  /\ \/ Catch("parseConfig")
     \/ validateOnly /\ Return /\ UNCHANGED outputs
     \/ ~validateOnly /\ Go("validateEvent")
  /\ UNCHANGED <<inputVars, callVars, triggerVars, runVars, branchVars, event, validateOnly,
                 commentData, gitAuth, promptPath, mcpConfig>>

\* Step 2: validateGitHubEvent
ValidateEventStep ==
  /\ pc = "validateEvent"
  /\ IF validateGitHubEvent(event.eventName) = "passed"
     THEN Go("setupToken") ELSE Catch("validateEvent")
  /\ UNCHANGED <<inputVars, callVars, triggerVars, runVars, branchVars, event, validateOnly,
                 commentData, gitAuth, promptPath, mcpConfig>>

\* Step 3: setupGitHubToken, createOctokit
SetupTokenStep ==
  /\ pc = "setupToken"
  /\ Go("parseContext") \/ Catch("setupToken")
  /\ UNCHANGED <<inputVars, callVars, triggerVars, runVars, branchVars, event, validateOnly,
                 commentData, gitAuth, promptPath, mcpConfig>>

\* Step 4: parseGitHubContext
ParseContextStep ==
  /\ pc = "parseContext"
  /\ LET parsed == parseGitHubContext(event.eventName, event.eventAction, event.payload)
     IN  IF parsed.threw
         THEN Catch("parseContext") /\ UNCHANGED context
         ELSE Go("checkTrigger") /\ context' = parsed
  /\ UNCHANGED <<config, callVars, triggerVars, runVars, branchVars, event, validateOnly,
                 commentData, gitAuth, promptPath, mcpConfig>>

ShouldSkipMutant(decision) == FALSE

\* if (!triggerContext.containsTrigger)
ShouldSkip(decision) == ~decision.containsTrigger

\* Step 5: checkTriggerConditions, and the "skipped" return
CheckTriggerStep ==
  /\ pc = "checkTrigger"
  /\ LET decision == checkTriggerConditions(context, config) IN
     /\ triggerContext' = decision
     /\ IF decision.threw THEN Catch("checkTrigger")
        ELSE IF ShouldSkip(decision)
        THEN /\ outputs' = [outputs EXCEPT !.conclusion = Some("skipped")]
             /\ Return
        ELSE Go("createComment")
  /\ UNCHANGED <<inputVars, callVars, tpc, runVars, branchVars, event, validateOnly,
                 commentData, gitAuth, promptPath, mcpConfig>>

\* createInitialComment: one create request; the comment's data when it succeeded
createInitialCommentMutant(ok) ==
  [requests |-> <<[Op("createComment", <<>>, 0) EXCEPT !.ok = ok]>> \o
                 (IF ok THEN <<>> ELSE <<Op("deleteComment", <<>>, 0)>>),
   data |-> IF ok THEN Some(TrackingCommentId) ELSE None,
   threw |-> ~ok]

createInitialComment(ok) ==
  [requests |-> <<[Op("createComment", <<>>, 0) EXCEPT !.ok = ok]>>,
   data |-> IF ok THEN Some(TrackingCommentId) ELSE None,
   threw |-> ~ok]

\* Step 6: createInitialComment
CreateCommentStep ==
  /\ pc = "createComment"
  /\ \E ok \in BOOLEAN :
       LET r == createInitialComment(ok) IN
       /\ ops' = ops \o r.requests
       /\ commentData' = r.data
       /\ IF r.threw THEN Catch("createComment") ELSE Go("setupBranch")
  /\ UNCHANGED <<inputVars, callVars, triggerVars, runVars, bpc, remoteRefs, checkedOut,
                 branchInfo, now, earlier, event, validateOnly, gitAuth, promptPath,
                 mcpConfig>>

\* Step 7: setupBranch
SetupBranchStep ==
  /\ pc = "setupBranch"
  /\ \E clock \in Clocks, failAt \in 0..5 :
       LET r == setupBranch(context, config, clock, remoteRefs, checkedOut, failAt) IN
       /\ branchInfo' = r.info
       /\ ops' = ops \o r.ops
       /\ remoteRefs' = r.refs
       /\ checkedOut' = r.tree
       /\ now' = r.now
       /\ IF r.info.threw THEN Catch("setupBranch") ELSE Go("gitAuth")
  /\ UNCHANGED <<inputVars, callVars, triggerVars, runVars, bpc, earlier, event, validateOnly,
                 commentData, gitAuth, promptPath, mcpConfig>>

\* Step 8: configureGitAuth unless commit signing is used
GitAuthStep ==
  /\ pc = "gitAuth"
  /\ IF config.useCommitSigning
     THEN Go("claudeAuth") /\ UNCHANGED gitAuth
     ELSE \/ Go("claudeAuth") /\ gitAuth' = TRUE
          \/ Catch("gitAuth") /\ UNCHANGED gitAuth
  /\ UNCHANGED <<inputVars, callVars, triggerVars, runVars, branchVars, event, validateOnly,
                 commentData, promptPath, mcpConfig>>

\* Step 9: setupClaudeAuthentication
ClaudeAuthStep ==
  /\ pc = "claudeAuth"
  /\ Go("createPrompt") \/ Catch("claudeAuth")
  /\ UNCHANGED <<inputVars, callVars, triggerVars, runVars, branchVars, event, validateOnly,
                 commentData, gitAuth, promptPath, mcpConfig>>

\* Step 10: createPromptFile
CreatePromptStep ==
  /\ pc = "createPrompt"
  /\ \/ Go("prepareMcp") /\ promptPath' = Some(PromptFile)
     \/ Catch("createPrompt") /\ UNCHANGED promptPath
  /\ UNCHANGED <<inputVars, callVars, triggerVars, runVars, branchVars, event, validateOnly,
                 commentData, gitAuth, mcpConfig>>

\* the arguments main() passes to prepareMcpConfig; context is githubContext
McpParams ==
  [branch |-> Get(branchInfo.currentBranch),
   additionalMcpConfig |-> config.mcpConfig,
   claudeCommentId |-> Some(NumToString(Get(commentData))),
   allowedTools |-> AllowedToolsList(config.allowedTools),
   context |-> context]

\* Step 11: prepareMcpConfig, which ends the process itself when it fails
PrepareMcpStep ==
  /\ pc = "prepareMcp"
  /\ \E hasActionsToken \in BOOLEAN, probeOk \in BOOLEAN :
       LET r == prepareMcpConfig(McpParams, hasActionsToken, probeOk) IN
       IF r.exited
       THEN /\ setFailed' = TRUE
            /\ exitCode' = Some(1)
            /\ failedAt' = Some("prepareMcp")
            /\ pc' = "done"
            /\ UNCHANGED <<outputs, mcpConfig>>
       ELSE /\ mcpConfig' = r.config
            /\ Go("settings")
  /\ UNCHANGED <<inputVars, callVars, triggerVars, runVars, branchVars, event, validateOnly,
                 commentData, gitAuth, promptPath>>

Next ==
  \/ ParseConfigStep
  \/ ValidateEventStep
  \/ SetupTokenStep
  \/ ParseContextStep
  \/ CheckTriggerStep
  \/ CreateCommentStep
  \/ SetupBranchStep
  \/ GitAuthStep
  \/ ClaudeAuthStep
  \/ CreatePromptStep
  \/ PrepareMcpStep

Init == MainInit

Spec == Init /\ [][Next]_vars

StepsBeforeTrigger == {"parseConfig", "validateEvent", "setupToken", "parseContext"}
StepsAfterTrigger == {"createComment", "setupBranch", "gitAuth", "claudeAuth",
                      "createPrompt", "prepareMcp"}

\* checkTriggerConditions has returned its decision in this invocation
TriggerEvaluated ==
  \/ pc \in StepsAfterTrigger \cup {"settings"}
  \/ /\ pc = "done"
     /\ ~validateOnly
     /\ failedAt \notin {Some(st) : st \in StepsBeforeTrigger \cup {"checkTrigger"}}

\* C2: a fatal error raised after trigger evaluation ends the invocation with
\* a non-zero exit code and conclusion = failure.
C2_FatalErrorYieldsFailure ==
  ( pc = "done" /\ failedAt \in {Some(st) : st \in StepsAfterTrigger} )
  => /\ exitCode # None
     /\ exitCode # Some(0)
     /\ outputs.conclusion = Some("failure")

\* C3: an unmatched trigger decision ends the invocation with conclusion =
\* skipped and exit code 0, with no tracking comment, no branch created or
\* checked out, no prompt file, no capability config and no subprocess.
C3_SkippedHasNoSideEffects ==
  ( TriggerEvaluated /\ ~triggerContext.containsTrigger )
  => /\ pc = "done"
     /\ outputs = [conclusion |-> Some("skipped"), execution_file |-> None]
     /\ exitCode = Some(0)
     /\ ~setFailed
     /\ ops = <<>>
     /\ commentData = None
     /\ remoteRefs = InitialRefs
     /\ checkedOut = Some(MainRef)
     /\ branchInfo = NoBranch
     /\ ~gitAuth
     /\ promptPath = None
     /\ mcpConfig = None
     /\ rpc = "idle"

\* a comment without the trigger phrase that ended the invocation as skipped
C3_Witness ==
  /\ pc = "done"
  /\ context # ParseThrew
  /\ context.eventName = "issue_comment"
  /\ context.payload.comment = Some([body |-> Some(<<"C">>), user |-> Some("al"),
                                     id |-> Some(456)])
  /\ ~triggerContext.containsTrigger
  /\ outputs.conclusion = Some("skipped")
  /\ exitCode = Some(0)

\* the end-to-end scenario: an issue_comment on issue #42 (not a pull request)
\* whose body contains the trigger phrase, default configuration
Scenario ==
  /\ event.eventName = "issue_comment"
  /\ event.payload.issue = Some(PlainIssue(42, "absent"))
  /\ event.payload.comment = Some([body |-> Some(<<"@", "c", "C">>),
                                   user |-> Some("al"), id |-> Some(456)])
  /\ config = DefaultConfig
  /\ ~validateOnly

\* every collaborator of the orchestrator answered without error
CollaboratorsSucceeded ==
  failedAt \notin {Some(st) : st \in {"parseConfig", "setupToken", "createComment",
                                     "setupBranch", "gitAuth", "claudeAuth",
                                     "createPrompt"}}

\* C4: in the end-to-end scenario the orchestrator mints and checks out
\* claude/issue-42-<timestamp>, builds a capability config holding only the
\* status-update descriptor, and ends with conclusion = success and exit code 0.
C4_EndToEndSuccess ==
  ( pc = "done" /\ Scenario /\ CollaboratorsSucceeded )
  => /\ triggerContext.containsTrigger
     /\ \E stamp \in CompactStamps :
          checkedOut = Some(<<"c", "l", "a", "u", "d", "e", "/", "i", "s", "s", "u", "e",
                              "-", "4", "2", "-">> \o stamp)
     /\ mcpConfig # None
     /\ DOMAIN Get(mcpConfig).mcpServers = {"github_comment"}
     /\ outputs.conclusion = Some("success")
     /\ exitCode = Some(0)

\* C5: a terminated invocation has (conclusion, exit code) among
\* (success, 0), (skipped, 0), (failure, non-zero), and execution_file is set
\* only when the runner produced an artifact.
C5_ExitOutputContract ==
  ( pc = "done" /\ ~validateOnly )
  => /\ \/ outputs.conclusion \in {Some("success"), Some("skipped")}
           /\ exitCode = Some(0)
        \/ outputs.conclusion = Some("failure")
           /\ exitCode \notin {None, Some(0)}
     /\ outputs.execution_file # None => executionFile # None

\* the five event kinds the action handles
FiveEventKinds == {"issue_comment", "pull_request_review_comment", "issues",
                   "pull_request_review", "pull_request"}

\* C19: validateGitHubEvent passes exactly the five supported event names and
\* fails with 'Unsupported event type' for any other; for an unsupported
\* event main() ends at Step 2 (or Step 1) without parsing the context,
\* evaluating the trigger, creating a comment, touching a branch or running
\* the assistant; parseGitHubContext rejects such a name too.
C19_UnsupportedEventRejected ==
  /\ validateGitHubEvent(event.eventName) = "passed"
       <=> event.eventName \in FiveEventKinds
  /\ failedAt = Some("validateEvent") => event.eventName \notin FiveEventKinds
  /\ event.eventName \notin FiveEventKinds
       => /\ validateGitHubEvent(event.eventName) = "Unsupported event type"
          /\ parseGitHubContext(event.eventName, event.eventAction, event.payload).threw
          /\ pc \in {"parseConfig", "validateEvent", "done"}
          /\ context = ParseThrew
          /\ triggerContext = NoResult
          /\ commentData = None
          /\ ops = <<>> /\ branchInfo = NoBranch /\ remoteRefs = InitialRefs
          /\ rpc = "idle" /\ mcpConfig = None
          /\ (pc = "done" /\ ~validateOnly)
               => /\ failedAt \in {Some("parseConfig"), Some("validateEvent")}
                  /\ outputs.conclusion = Some("failure")
                  /\ exitCode = Some(1)

\* a push event stopped at Step 2
C19_Witness ==
  /\ event.eventName = "push"
  /\ pc = "done"
  /\ failedAt = Some("validateEvent")
  /\ outputs.conclusion = Some("failure")
  /\ context = ParseThrew
  /\ ops = <<>>

\* the steps of main() in program order
StepOrder == <<"parseConfig", "validateEvent", "setupToken", "parseContext",
               "checkTrigger", "createComment", "setupBranch", "gitAuth",
               "claudeAuth", "createPrompt", "prepareMcp", "settings">>

StepIndex(step) == CHOOSE k \in 1..Len(StepOrder) : StepOrder[k] = step

\* what each step leaves behind exists only if the steps before it succeeded
StepsBuildOnEachOther ==
  /\ context # ParseThrew => pc \notin StepsBeforeTrigger
  /\ triggerContext # NoResult => context # ParseThrew
  /\ commentData # None
       => (triggerContext # NoResult /\ ~triggerContext.threw
           /\ triggerContext.containsTrigger)
  /\ (branchInfo # NoBranch \/ remoteRefs # InitialRefs \/ checkedOut # Some(MainRef))
       => commentData # None
  /\ (gitAuth \/ promptPath # None)
       => (branchInfo # NoBranch /\ ~branchInfo.threw
           /\ checkedOut = branchInfo.currentBranch)
  /\ mcpConfig # None => promptPath # None
  /\ rpc # "idle"
       => /\ triggerContext.containsTrigger
          /\ checkedOut = branchInfo.currentBranch
          /\ mcpConfig # None
  /\ outputs.conclusion = Some("success") => rpc # "idle"

CommentOps == {"createComment", "updateComment", "deleteComment"}

IsCommentRequest(request) == request.op \in CommentOps

CommentRequests(log) == SelectSeq(log, IsCommentRequest)

\* C39: once the tracking comment exists no later step, and no failure path,
\* issues another comment request or changes the recorded comment: a triggered
\* invocation issues exactly one create request when it reaches step 6, and no
\* update or delete request at all.
C39_TrackingCommentLeftInPlace ==
  [][ /\ commentData # None =>
           /\ commentData' = commentData
           /\ CommentRequests(ops') = CommentRequests(ops)
      /\ \A k \in 1..Len(CommentRequests(ops')) :
           CommentRequests(ops')[k].op = "createComment"
      /\ (pc = "createComment" /\ pc' # pc) => Len(CommentRequests(ops')) = 1
      /\ pc # "createComment" => Len(CommentRequests(ops')) = Len(CommentRequests(ops))
      /\ commentData' # None =>
           /\ commentData' = Some(TrackingCommentId)
           /\ CommentRequests(ops') = <<Op("createComment", <<>>, 0)>>
    ]_vars

C39_Witness ==
  /\ pc = "done"
  /\ failedAt \in {Some("setupBranch"), Some("gitAuth"), Some("createPrompt")}
  /\ failedAt # Some("setupBranch") \/ Len(ops) > 1
  /\ commentData = Some(TrackingCommentId)
  /\ CommentRequests(ops) = <<Op("createComment", <<>>, 0)>>

\* ------------------------------------ direct calls of parseEnvironmentConfig
\* String.prototype.toLowerCase, for the letters drawn
ToLowerCase(str) ==
  [i \in 1..Len(str) |->
     CASE str[i] = "T" -> "t"
       [] str[i] = "R" -> "r"
       [] str[i] = "U" -> "u"
       [] str[i] = "E" -> "e"
       [] OTHER -> str[i]]

getBooleanEnvMutant(e, key) == FALSE

\* getBooleanEnv(key): false when unset or empty, else
\* value.toLowerCase() === 'true' || value === '1'
getBooleanEnv(e, key) ==
  IF ~Truthy(e[key]) THEN FALSE
  ELSE \/ ToLowerCase(Get(e[key])) = <<"t", "r", "u", "e">>
       \/ Get(e[key]) = <<"1">>

\* getOptionalEnv(key): process.env[key] || undefined
getOptionalEnv(e, key) == IF Truthy(e[key]) THEN e[key] ELSE None

ConfigThrew(message) == [threw |-> Some(message), config |-> None]

parseEnvironmentConfig(e) ==
  LET githubToken ==
        IF Truthy(e.INPUT_GITHUB_TOKEN) THEN Get(e.INPUT_GITHUB_TOKEN)
        ELSE IF Truthy(e.GITHUB_TOKEN) THEN Get(e.GITHUB_TOKEN)
        ELSE <<>>
      hasAnthropicAuth ==
        Truthy(e.INPUT_ANTHROPIC_API_KEY) \/ Truthy(e.INPUT_CLAUDE_CODE_OAUTH_TOKEN)
      hasGitHubAuth == githubToken # <<>>
      useCloudProvider ==
        getBooleanEnv(e, "INPUT_USE_BEDROCK") \/ getBooleanEnv(e, "INPUT_USE_VERTEX")
  IN  IF ~hasAnthropicAuth /\ ~hasGitHubAuth /\ ~useCloudProvider
      THEN ConfigThrew("No authentication method provided")
      ELSE IF ~Truthy(e.GITHUB_REPOSITORY) \/ ~Truthy(e.GITHUB_EVENT_NAME)
      THEN \* getRequiredEnv
           ConfigThrew("Required environment variable is not set")
      ELSE [threw |-> None,
            config |-> Some(
              [githubToken |-> githubToken,
               repository |-> Get(e.GITHUB_REPOSITORY),
               eventName |-> Get(e.GITHUB_EVENT_NAME),
               anthropicApiKey |-> getOptionalEnv(e, "INPUT_ANTHROPIC_API_KEY"),
               claudeCodeOauthToken |-> getOptionalEnv(e, "INPUT_CLAUDE_CODE_OAUTH_TOKEN"),
               useBedrock |-> getBooleanEnv(e, "INPUT_USE_BEDROCK"),
               useVertex |-> getBooleanEnv(e, "INPUT_USE_VERTEX")])]

\* a secret is unset, set to the empty string, or set
Secrets == Opt({<<>>, <<"k">>})

FlagValues ==
  Opt({<<"t", "r", "u", "e">>, <<"T", "r", "u", "e">>, <<"1">>,
       <<"f", "a", "l", "s", "e">>})

Environments ==
  [INPUT_ANTHROPIC_API_KEY : Secrets,
   INPUT_CLAUDE_CODE_OAUTH_TOKEN : Secrets,
   INPUT_GITHUB_TOKEN : Secrets,
   GITHUB_TOKEN : Secrets,
   INPUT_USE_BEDROCK : FlagValues,
   INPUT_USE_VERTEX : FlagValues,
   GITHUB_REPOSITORY : Opt({<<"o", "/", "r">>}),
   GITHUB_EVENT_NAME : Opt({<<"i", "s", "s", "u", "e", "s">>})]

EnvInit ==
  /\ env \in Environments
  /\ epc = "call"
  /\ envConfig = None
  /\ McpIdle
  /\ ShareIdle
  /\ AuthIdle
  /\ config = DefaultConfig
  /\ context = ParseThrew
  /\ TriggerIdle
  /\ RunIdle
  /\ BranchIdle
  /\ MainIdle

ParseEnvironmentConfigCall ==
  /\ epc = "call"
  /\ LET r == parseEnvironmentConfig(env) IN
     /\ envConfig' = Some(r)
     /\ epc' = IF IsSome(r.threw) THEN "threw" ELSE "returned"
  /\ UNCHANGED <<inputVars, triggerVars, runVars, branchVars, mainVars, mcpVars, shareVars, authVars, env>>

EnvNext == ParseEnvironmentConfigCall

SpecEnv == EnvInit /\ [][EnvNext]_vars

\* a variable holding a non-empty value
IsSet(key) == env[key] \notin {None, Some(<<>>)}

\* a flag variable holding 'true' in any letter case, or '1'
IsOn(key) ==
  env[key] \in {Some(<<"t", "r", "u", "e">>), Some(<<"T", "r", "u", "e">>),
                Some(<<"1">>)}

NoAuthenticationSupplied ==
  /\ ~IsSet("INPUT_ANTHROPIC_API_KEY")
  /\ ~IsSet("INPUT_CLAUDE_CODE_OAUTH_TOKEN")
  /\ ~IsSet("INPUT_GITHUB_TOKEN")
  /\ ~IsSet("GITHUB_TOKEN")
  /\ ~IsOn("INPUT_USE_BEDROCK")
  /\ ~IsOn("INPUT_USE_VERTEX")

\* C20: parseEnvironmentConfig throws 'No authentication method provided'
\* exactly when no API key, OAuth token, GitHub token (INPUT_GITHUB_TOKEN or
\* GITHUB_TOKEN), Bedrock flag or Vertex flag is supplied, and then returns
\* no configuration record.
C20_AuthenticationRequired ==
  epc # "call"
  => LET r == Get(envConfig) IN
     /\ r.threw = Some("No authentication method provided") <=> NoAuthenticationSupplied
     /\ IsSome(r.threw) => (r.config = None /\ epc = "threw")
     /\ ~NoAuthenticationSupplied /\ IsSet("GITHUB_REPOSITORY") /\ IsSet("GITHUB_EVENT_NAME")
          => (epc = "returned" /\ IsSome(r.config))

\* repository and event name set, no credential, Bedrock flag 'false'
C20_Witness ==
  /\ epc = "threw"
  /\ IsSet("GITHUB_REPOSITORY") /\ IsSet("GITHUB_EVENT_NAME")
  /\ env.INPUT_USE_BEDROCK = Some(<<"f", "a", "l", "s", "e">>)
  /\ env.INPUT_ANTHROPIC_API_KEY = Some(<<>>)
  /\ Get(envConfig).threw = Some("No authentication method provided")
  /\ Get(envConfig).config = None

====
